---- MODULE Spec2Model ----
(***************************************************************************)
(* Kernel emulation layer of the recompiled title (src/src/kernel_stubs.cpp)*)
(*                                                                         *)
(*  - the cooperative fiber scheduler: ExCreateThread, NtResumeThread,     *)
(*    KeResumeThread, the blocking primitives, ExTerminateThread, VdSwap,  *)
(*    thread_give_timeslice, thread_yield and ppc_thread_fiber_proc;       *)
(*  - the bump allocator behind NtAllocateVirtualMemory,                   *)
(*    MmAllocatePhysicalMemoryEx, ExAllocatePool*, XamAlloc,               *)
(*    VdGetSystemCommandBuffer and XamGetExecutionId.                      *)
(*                                                                         *)
(* Guest code is arbitrary: whichever fiber is executing guest code picks  *)
(* its next kernel call and the call's arguments nondeterministically.     *)
(* A fiber that is switched away from keeps its position (fiber_pc) and    *)
(* continues from it when SwitchToFiber selects it again.                  *)
(***************************************************************************)
EXTENDS Integers, Sequences, FiniteSets, TLC

\* ------------------------------------------------------------------------
\* Program constants
\* ------------------------------------------------------------------------
MAX_PENDING_THREADS == 16

\* g_current_thread == nullptr, g_current_thread_idx == -1: the main context
NULL_THREAD == -1

\* first value of g_next_handle (0x100)
FIRST_HANDLE == 256

MAX_FILE_HANDLES == 128

\* FILE_HANDLE_BASE 0x1000
FILE_HANDLE_BASE == 4096

\* ------------------------------------------------------------------------
\* Bounds of the model
\* ------------------------------------------------------------------------
\* creations of generic objects in a run of SpecObjects: enough for
\* g_next_handle to climb from 0x100 past 0x1000
MaxObjects == 3850

\* slots in use from which a run of SpecSlots also opens directories
DirOpensFrom == 126

\* datagrams a discovery socket queues before it drops the next one
MaxQueued == 1

\* datagrams remote hosts send while one XNetQosLookup collects
MaxArrivals == 2

\* handles handed out by g_next_handle++ in a run of Spec
MaxHandles == 2

\* fibers the host can create when host memory is scarce (CreateFiber then
\* returns NULL)
HostFibersScarce == 1

\* allocator calls in a run of SpecHeap
MaxHeapCalls == 3

\* indirect dispatches to address 0 in a run of SpecIcall
MaxNullIcalls == 6

\* out-of-range indirect dispatches of one call site in a run of SpecIcall
MaxOorIcalls == 21

\* characters of a guest path after its prefix and separator in SpecPath
MaxRestLen == 2

\* files and directories open at once in a run of SpecFile
MaxOpenFiles == 1

\* ------------------------------------------------------------------------
\* Vocabulary
\* ------------------------------------------------------------------------
\* "nothing": no descriptor, no value written through an out pointer
NoValue == 0 - 1

\* the main fiber (ConvertThreadToFiber in main); child fibers are named by
\* the index of their descriptor in g_pending_threads
MAIN == NULL_THREAD

Slots == 0 .. (MAX_PENDING_THREADS - 1)

Fibers == {MAIN} \cup Slots

\* guest addresses a start routine argument can take: 0 (null), an address
\* with a host function bound in the function table, one without
GuestRoutines == {0, 1, 2}

\* the addresses among them whose function-table slot holds a host function
BoundRoutines == {1}

VARIABLES
    g_pending_threads,       \* PendingThread g_pending_threads[MAX_PENDING_THREADS]
    g_pending_thread_count,  \* int g_pending_thread_count
    g_next_handle,           \* uint32_t g_next_handle
    g_main_fiber,            \* g_main_fiber != nullptr
    g_current_thread,        \* descriptor index g_current_thread points to, or NULL_THREAD
    cur_fiber,               \* the fiber the OS thread is executing (GetCurrentFiber)
    fiber_pc,                \* position of every fiber: where it executes or is parked
    host_fibers,             \* fibers CreateFiber can still create
    crashed,                 \* the process has died on undefined behaviour
    awaiting_resume,         \* per descriptor: created suspended and no resume call has
                             \* named its handle since
    last,                    \* the kernel call that returned to guest code in the step
                             \* just taken (NoCall when none did)
    g_heap_next,             \* uint32_t g_heap_next, as <<high half-word, low half-word>>
    s_cmd_buf,               \* VdGetSystemCommandBuffer's static s_cmd_buf
    allocs,                  \* successful allocations so far, in call order
    heap_last,               \* the allocation call that returned last
    heap_all_fit,            \* every request so far fitted the remaining capacity
    heap_failed,             \* requested sizes that have been refused so far
    heap_calls,              \* allocator calls made so far
    g_null_icall_count,      \* uint64_t g_null_icall_count (main.cpp)
    _oor_count,              \* static int _oor_count of every expansion of the macro
    icall_aborted,           \* abort() has ended the process
    icall_last,              \* the indirect dispatch made last
    path_last,               \* the xbox_path_to_host call made last
    g_file_handles,          \* HandleEntry g_file_handles[MAX_FILE_HANDLES]
    dir_returned,            \* per slot in use: the entries queries have returned since
                             \* the open
    file_last,               \* the file I/O call made last
    file_closed,             \* handle values NtClose has freed and no open has handed
                             \* out again since
    host_fps,                \* the FILE* streams fopen has handed out and fclose
                             \* has not taken back
    obj_last,                \* the creation of a generic kernel object made last
    status_last,             \* the RtlNtStatusToDosError call made last
    g_peers,                 \* per instance: std::vector<PeerEntry> g_peers
    g_peers_mutex,           \* the thread of the instance under study that holds
                             \* g_peers_mutex exclusively ("none" when free)
    g_qos_active,            \* per instance: g_qos_listener.active
    g_disc_running,          \* per instance: g_disc_running
    disc_socket,             \* per instance: the datagrams queued on g_disc_socket
    net_pc,                  \* per thread of the instance under study: the call it
                             \* is in and where
    connect_called,          \* the IPs XNetConnect has been called for since their
                             \* entry was last removed
    net_last,                \* the networking step that completed last
    g_pending_recvs,         \* std::unordered_map<uint32_t, PendingRecv>
                             \* g_pending_recvs: per token, its entry or NoPending
    xsockets,                \* the socket handles the object table resolves
    sock_queue,              \* per socket handle: the datagrams its native socket
                             \* has queued
    overlapped_status,       \* per token: the status word at overlapped + 0
    recv_last,               \* the overlapped receive call made last
    recv_delivered,          \* the tokens a receive has delivered data for
    g_qos_data_len,          \* g_qos_listener.data_len of the instance under study
    wire_last,               \* the Beacon sent or collected last, with its lengths
    lock_holders,            \* per lock of net.cpp: the threads that hold it, each
                             \* with its mode
    lock_pc,                 \* per thread: what is left of the networking function
                             \* it is in
    lock_last,               \* the access to a guarded structure made last, with
                             \* the locks its thread held
    g_disc_thread,           \* where DiscoveryThreadFunc stands ("none": no thread
                             \* to join)
    stop_running,            \* g_disc_running, as NetInit and NetShutdown store it
    g_disc_socket,           \* the datagrams queued on g_disc_socket, or
                             \* INVALID_SOCKET
    stop_pc,                 \* where the main thread stands in its networking call
    stop_tables,             \* which of peer table, listener and pending-receive
                             \* map hold something
    stop_last                \* the call of the main thread that returned last

schedVars ==
    <<g_pending_threads, g_pending_thread_count, g_next_handle, g_main_fiber,
      g_current_thread, cur_fiber, fiber_pc, host_fibers, crashed, awaiting_resume, last>>

heapVars ==
    <<g_heap_next, s_cmd_buf, allocs, heap_last, heap_all_fit, heap_failed, heap_calls>>

icallVars == <<g_null_icall_count, _oor_count, icall_aborted, icall_last>>

fileVars ==
    <<path_last, g_file_handles, dir_returned, file_last, file_closed, host_fps>>

objVars == <<obj_last>>

statusVars == <<status_last>>

netVars ==
    <<g_peers, g_peers_mutex, g_qos_active, g_disc_running, disc_socket, net_pc,
      connect_called, net_last>>

recvVars ==
    <<g_pending_recvs, xsockets, sock_queue, overlapped_status, recv_last, recv_delivered>>

wireVars == <<g_qos_data_len, wire_last>>

lockVars == <<lock_holders, lock_pc, lock_last>>

stopVars ==
    <<g_disc_thread, stop_running, g_disc_socket, stop_pc, stop_tables, stop_last>>

vars ==
    <<schedVars, heapVars, icallVars, fileVars, objVars, statusVars, netVars, recvVars, wireVars,
      lockVars, stopVars>>

\* what a step of one part of the kernel leaves alone
nonSchedVars == <<heapVars, icallVars, fileVars, objVars, statusVars, netVars, recvVars, wireVars,
      lockVars, stopVars>>

nonHeapVars == <<schedVars, icallVars, fileVars, objVars, statusVars, netVars, recvVars, wireVars,
      lockVars, stopVars>>

nonIcallVars == <<schedVars, heapVars, fileVars, objVars, statusVars, netVars, recvVars, wireVars,
      lockVars, stopVars>>

nonFileVars == <<schedVars, heapVars, icallVars, objVars, statusVars, netVars, recvVars, wireVars,
      lockVars, stopVars>>

\* what a creation of a generic object leaves alone besides the scheduler
nonObjVars == <<heapVars, icallVars, fileVars, statusVars, netVars, recvVars, wireVars,
      lockVars, stopVars>>

nonStatusVars == <<schedVars, heapVars, icallVars, fileVars, objVars, netVars, recvVars, wireVars,
      lockVars, stopVars>>

nonNetVars ==
    <<schedVars, heapVars, icallVars, fileVars, objVars, statusVars, recvVars, wireVars,
      lockVars, stopVars>>

nonRecvVars ==
    <<schedVars, heapVars, icallVars, fileVars, objVars, statusVars, netVars, wireVars,
      lockVars, stopVars>>

nonWireVars ==
    <<schedVars, heapVars, icallVars, fileVars, objVars, statusVars, recvVars,
      lockVars, stopVars>>

nonLockVars ==
    <<schedVars, heapVars, icallVars, fileVars, objVars, statusVars, netVars, recvVars,
      wireVars, stopVars>>

nonStopVars ==
    <<schedVars, heapVars, icallVars, fileVars, objVars, statusVars, netVars, recvVars,
      wireVars, lockVars>>

\* ------------------------------------------------------------------------
\* Scheduler: data
\* ------------------------------------------------------------------------
\* struct PendingThread, zero-initialised (g_pending_threads[] = {})
PendingThread ==
    [handle |-> 0, start_routine |-> 0, suspended |-> FALSE,
     finished |-> FALSE, started |-> FALSE]

\* PPC_LOOKUP_FUNC(base, addr): is a host function bound to addr
PPC_LOOKUP_FUNC(addr) == addr \in BoundRoutines

\* a position: at = where the fiber is, the rest describes the kernel call in
\* progress (op), the descriptor it concerns (i), what it wrote through its
\* out pointer (out), its main argument (arg) and how often it switched away (sw)
Position(at, op, i, out, arg, sw) ==
    [at |-> at, op |-> op, i |-> i, out |-> out, arg |-> arg, sw |-> sw]

GuestPC == Position("guest", "-", NoValue, NoValue, NoValue, 0)

NoFiberPC == Position("none", "-", NoValue, NoValue, NoValue, 0)

EntryPC == Position("entry", "-", NoValue, NoValue, NoValue, 0)

NoCall ==
    [op |-> "-", fiber |-> MAIN, r3 |-> NoValue, out |-> NoValue,
     arg |-> NoValue, idx |-> NoValue, sw |-> 0]

\* fiber f is executing guest code and may call into the kernel
InGuest(f) == ~crashed /\ cur_fiber = f /\ fiber_pc[f].at = "guest"

\* fiber f has just been switched to and continues from its parked position
ParkedAt(f, at) == ~crashed /\ cur_fiber = f /\ fiber_pc[f].at = at

\* ------------------------------------------------------------------------
\* Scheduler: helpers
\* ------------------------------------------------------------------------
\* the kernel call of fiber f returns to guest code with r3
Complete(f, call, r3) ==
    /\ fiber_pc' = [fiber_pc EXCEPT ![f] = GuestPC]
    /\ last' = [op |-> call.op, fiber |-> f, r3 |-> r3, out |-> call.out,
                arg |-> call.arg, idx |-> call.i, sw |-> call.sw]

\* what the caller of thread_give_timeslice does after it returns:
\* ExCreateThread and NtResumeThread return 0, KeResumeThread returns 1,
\* VdSwap goes on with the next descriptor
AfterTimeslice(f, call) ==
    IF call.op = "VdSwap"
    THEN /\ fiber_pc' = [fiber_pc EXCEPT ![f] = [call EXCEPT !.at = "swap", !.i = call.i + 1]]
         /\ last' = NoCall
    ELSE Complete(f, call, IF call.op = "KeResumeThread" THEN 1 ELSE 0)

\* thread_give_timeslice(pt, idx), called by fiber f inside the call `call`,
\* thr being the descriptor array as the caller has left it
thread_give_timeslice(thr, f, idx, call) ==
    IF thr[idx].finished \/ thr[idx].suspended
    THEN /\ g_pending_threads' = thr
         /\ UNCHANGED <<g_current_thread, cur_fiber, host_fibers, crashed>>
         /\ AfterTimeslice(f, call)
    ELSE IF ~thr[idx].started /\ host_fibers = 0
    THEN \* CreateFiber returned NULL
         /\ g_pending_threads' = [thr EXCEPT ![idx].finished = TRUE]
         /\ UNCHANGED <<g_current_thread, cur_fiber, host_fibers, crashed>>
         /\ AfterTimeslice(f, call)
    ELSE /\ g_pending_threads' = [thr EXCEPT ![idx].started = TRUE]
         /\ host_fibers' = IF thr[idx].started THEN host_fibers ELSE host_fibers - 1
         /\ IF idx # f
            THEN \* g_current_thread = &pt; SwitchToFiber(pt.fiber)
                 /\ g_current_thread' = idx
                 /\ cur_fiber' = idx
                 /\ fiber_pc' = [fiber_pc EXCEPT
                        ![f] = [call EXCEPT !.at = "grant", !.i = idx, !.sw = @ + 1],
                        ![idx] = IF thr[idx].started THEN @ ELSE EntryPC]
                 /\ last' = NoCall
                 /\ UNCHANGED crashed
            ELSE \* SwitchToFiber on the running fiber is undefined: it either
                 \* comes back at once (lines 221-222 then run) or the process dies
                 \/ /\ g_current_thread' = NULL_THREAD
                    /\ UNCHANGED <<cur_fiber, crashed>>
                    /\ AfterTimeslice(f, call)
                 \/ /\ g_current_thread' = idx
                    /\ crashed' = TRUE
                    /\ last' = NoCall
                    /\ UNCHANGED <<cur_fiber, fiber_pc>>

\* SwitchToFiber(g_main_fiber) by child fiber f, which parks at `pos`
SwitchToMain(f, pos) ==
    /\ cur_fiber' = MAIN
    /\ fiber_pc' = [fiber_pc EXCEPT ![f] = pos]

\* ------------------------------------------------------------------------
\* Scheduler: the kernel calls
\* ------------------------------------------------------------------------
\* ExCreateThread as it would be if the descriptor did not record r9: the
\* new thread is queued runnable and given a timeslice whatever the caller
\* asked for
ExCreateThread_IgnoresSuspended(f, handle_ptr, start_routine, suspended) ==
    /\ InGuest(f)
    /\ LET thread_handle == g_next_handle
           queued == start_routine # 0 /\ g_pending_thread_count < MAX_PENDING_THREADS
           idx == g_pending_thread_count
           call == Position("guest", "ExCreateThread", IF queued THEN idx ELSE NoValue,
                            IF handle_ptr THEN thread_handle ELSE NoValue, suspended, 0)
           thr == [g_pending_threads EXCEPT ![idx] =
                      [handle |-> thread_handle, start_routine |-> start_routine,
                       suspended |-> FALSE, finished |-> FALSE, started |-> FALSE]]
       IN /\ g_next_handle' = g_next_handle + 1
          /\ UNCHANGED g_main_fiber
          /\ IF queued
             THEN /\ g_pending_thread_count' = idx + 1
                  /\ awaiting_resume' = [awaiting_resume EXCEPT ![idx] = (suspended # 0)]
                  /\ IF g_main_fiber
                     THEN thread_give_timeslice(thr, f, idx, call)
                     ELSE /\ g_pending_threads' = thr
                          /\ UNCHANGED <<g_current_thread, cur_fiber, host_fibers, crashed>>
                          /\ Complete(f, call, 0)
             ELSE /\ UNCHANGED <<g_pending_threads, g_pending_thread_count,
                                 g_current_thread, cur_fiber, host_fibers,
                                 crashed, awaiting_resume>>
                  /\ Complete(f, call, 0)

\* __imp__ExCreateThread: r3 = handle_ptr (non-null or not), r7 = start_routine,
\* r9 = suspended
ExCreateThread(f, handle_ptr, start_routine, suspended) ==
    /\ InGuest(f)
    /\ LET thread_handle == g_next_handle
           queued == start_routine # 0 /\ g_pending_thread_count < MAX_PENDING_THREADS
           idx == g_pending_thread_count
           call == Position("guest", "ExCreateThread", IF queued THEN idx ELSE NoValue,
                            IF handle_ptr THEN thread_handle ELSE NoValue, suspended, 0)
           thr == [g_pending_threads EXCEPT ![idx] =
                      [handle |-> thread_handle, start_routine |-> start_routine,
                       suspended |-> (suspended # 0), finished |-> FALSE,
                       started |-> FALSE]]
       IN /\ g_next_handle' = g_next_handle + 1
          /\ UNCHANGED g_main_fiber
          /\ IF queued
             THEN /\ g_pending_thread_count' = idx + 1
                  /\ awaiting_resume' = [awaiting_resume EXCEPT ![idx] = (suspended # 0)]
                  /\ IF ~thr[idx].suspended /\ g_main_fiber
                     THEN thread_give_timeslice(thr, f, idx, call)
                     ELSE /\ g_pending_threads' = thr
                          /\ UNCHANGED <<g_current_thread, cur_fiber, host_fibers, crashed>>
                          /\ Complete(f, call, 0)
             ELSE /\ UNCHANGED <<g_pending_threads, g_pending_thread_count,
                                 g_current_thread, cur_fiber, host_fibers,
                                 crashed, awaiting_resume>>
                  /\ Complete(f, call, 0)

\* the resume loops as they would be if they stopped at every unfinished
\* descriptor of the handle
ResumeMatches_IgnoresSuspended(h) ==
    {i \in 0 .. (g_pending_thread_count - 1) :
        /\ g_pending_threads[i].handle = h
        /\ ~g_pending_threads[i].finished}

\* the descriptors the resume loops stop at: handle matches, suspended, unfinished
ResumeMatches(h) ==
    {i \in 0 .. (g_pending_thread_count - 1) :
        /\ g_pending_threads[i].handle = h
        /\ g_pending_threads[i].suspended
        /\ ~g_pending_threads[i].finished}

FirstOf(S) == CHOOSE i \in S : \A j \in S : i <= j

\* the body shared by NtResumeThread and KeResumeThread: `found` is what is
\* written or returned for a match, `missed` when nothing matches
ResumeThread(f, op, h, found, missed) ==
    /\ InGuest(f)
    /\ UNCHANGED <<g_pending_thread_count, g_next_handle, g_main_fiber>>
    /\ awaiting_resume' =
          [i \in Slots |->
              IF i < g_pending_thread_count /\ g_pending_threads[i].handle = h
              THEN FALSE ELSE awaiting_resume[i]]
    /\ IF ResumeMatches(h) # {}
       THEN LET i == FirstOf(ResumeMatches(h))
                thr == [g_pending_threads EXCEPT ![i].suspended = FALSE]
                call == Position("guest", op, i, found, h, 0)
            IN IF g_main_fiber
               THEN thread_give_timeslice(thr, f, i, call)
               ELSE /\ g_pending_threads' = thr
                    /\ UNCHANGED <<g_current_thread, cur_fiber, host_fibers, crashed>>
                    /\ AfterTimeslice(f, call)
       ELSE /\ UNCHANGED <<g_pending_threads, g_current_thread, cur_fiber,
                           host_fibers, crashed>>
            /\ Complete(f, Position("guest", op, NoValue, missed, h, 0), 0)

\* __imp__NtResumeThread: r3 = thread_handle, r4 = prev_count_ptr (non-null or
\* not); *prev_count_ptr = 1 for a match, 0 otherwise
NtResumeThread(f, thread_handle, prev_count_ptr) ==
    ResumeThread(f, "NtResumeThread", thread_handle,
                 IF prev_count_ptr THEN 1 ELSE NoValue,
                 IF prev_count_ptr THEN 0 ELSE NoValue)

\* __imp__KeResumeThread: r3 = thread_ref, matched against the handles
KeResumeThread(f, thread_ref) ==
    ResumeThread(f, "KeResumeThread", thread_ref, NoValue, NoValue)

\* thread_yield(), called by fiber f inside a blocking primitive
thread_yield(f) ==
    IF g_current_thread # NULL_THREAD /\ g_main_fiber
    THEN /\ SwitchToMain(f, Position("yield", "Blocking", NoValue, NoValue, NoValue, 1))
         /\ last' = NoCall
    ELSE /\ Complete(f, Position("guest", "Blocking", NoValue, NoValue, NoValue, 0), 0)
         /\ UNCHANGED cur_fiber

\* The six blocking primitives KeDelayExecutionThread, KeWaitForSingleObject,
\* KeWaitForMultipleObjects, KeReleaseSemaphore, NtWaitForSingleObjectEx and
\* NtWaitForMultipleObjectsEx have one body as far as scheduling goes:
\*   if (g_current_thread) thread_yield(); ctx.r3.u32 = 0;
\* (KeDelayExecutionThread sleeps in the main context before it returns 0)
BlockingCall(f) ==
    /\ InGuest(f)
    /\ IF g_current_thread # NULL_THREAD
       THEN thread_yield(f)
       ELSE /\ Complete(f, Position("guest", "Blocking", NoValue, NoValue, NoValue, 0), 0)
            /\ UNCHANGED cur_fiber
    /\ UNCHANGED <<g_pending_threads, g_pending_thread_count, g_next_handle,
                   g_main_fiber, g_current_thread, host_fibers, crashed, awaiting_resume>>

\* ExTerminateThread as it would be without its SwitchToFiber: the thread is
\* marked finished and goes on executing
ExTerminateThread_KeepsRunning(f) ==
    /\ InGuest(f)
    /\ IF g_current_thread # NULL_THREAD
       THEN g_pending_threads' =
                [g_pending_threads EXCEPT ![g_current_thread].finished = TRUE]
       ELSE UNCHANGED g_pending_threads
    /\ Complete(f, Position("guest", "ExTerminateThread", NoValue, NoValue, NoValue, 0), 0)
    /\ UNCHANGED <<g_pending_thread_count, g_next_handle, g_main_fiber,
                   g_current_thread, cur_fiber, host_fibers, crashed, awaiting_resume>>

\* __imp__ExTerminateThread
ExTerminateThread(f) ==
    /\ InGuest(f)
    /\ IF g_current_thread # NULL_THREAD
       THEN /\ g_pending_threads' =
                   [g_pending_threads EXCEPT ![g_current_thread].finished = TRUE]
            /\ SwitchToMain(f, Position("term", "ExTerminateThread",
                                        NoValue, NoValue, NoValue, 1))
            /\ last' = NoCall
       ELSE /\ Complete(f, Position("guest", "ExTerminateThread",
                                    NoValue, NoValue, NoValue, 0), 0)
            /\ UNCHANGED <<g_pending_threads, cur_fiber>>
    /\ UNCHANGED <<g_pending_thread_count, g_next_handle, g_main_fiber,
                   g_current_thread, host_fibers, crashed, awaiting_resume>>

\* __imp__VdSwap, entry: the loop starts at descriptor 0
VdSwap(f) ==
    /\ InGuest(f)
    /\ fiber_pc' = [fiber_pc EXCEPT ![f] =
                       Position("swap", "VdSwap", 0, NoValue, NoValue, 0)]
    /\ UNCHANGED <<g_pending_threads, g_pending_thread_count, g_next_handle,
                   g_main_fiber, g_current_thread, cur_fiber, host_fibers, crashed, awaiting_resume>>
    /\ last' = NoCall

\* __imp__VdSwap, one turn of for (i = 0; i < g_pending_thread_count; i++)
VdSwapLoop(f) ==
    /\ ParkedAt(f, "swap")
    /\ LET call == fiber_pc[f]
           i == call.i
       IN IF i < g_pending_thread_count
          THEN IF ~g_pending_threads[i].suspended /\ ~g_pending_threads[i].finished
               THEN thread_give_timeslice(g_pending_threads, f, i, call)
               ELSE /\ fiber_pc' = [fiber_pc EXCEPT ![f].i = i + 1]
                    /\ UNCHANGED <<g_pending_threads, g_current_thread, cur_fiber,
                                   host_fibers, crashed>>
                    /\ last' = NoCall
          ELSE /\ Complete(f, [call EXCEPT !.i = NoValue], NoValue)
               /\ UNCHANGED <<g_pending_threads, g_current_thread, cur_fiber,
                              host_fibers, crashed>>
    /\ UNCHANGED <<g_pending_thread_count, g_next_handle, g_main_fiber, awaiting_resume>>

\* ------------------------------------------------------------------------
\* Scheduler: what a fiber does when it is switched to
\* ------------------------------------------------------------------------
\* ppc_thread_fiber_proc, entered on the first switch to the fiber
FiberEntry(f) ==
    /\ ParkedAt(f, "entry")
    /\ IF PPC_LOOKUP_FUNC(g_pending_threads[f].start_routine)
       THEN \* fn(ctx, base): the start routine runs
            /\ fiber_pc' = [fiber_pc EXCEPT ![f] = GuestPC]
            /\ UNCHANGED <<g_pending_threads, cur_fiber>>
       ELSE \* no function at the address: finished, back to the main fiber
            /\ g_pending_threads' = [g_pending_threads EXCEPT ![f].finished = TRUE]
            /\ SwitchToMain(f, Position("exit", "-", NoValue, NoValue, NoValue, 0))
    /\ last' = NoCall
    /\ UNCHANGED <<g_pending_thread_count, g_next_handle, g_main_fiber,
                   g_current_thread, host_fibers, crashed, awaiting_resume>>

\* ppc_thread_fiber_proc, the start routine returns: pt->finished = true;
\* SwitchToFiber(g_main_fiber)
StartRoutineReturns(f) ==
    /\ f # MAIN
    /\ InGuest(f)
    /\ g_pending_threads' = [g_pending_threads EXCEPT ![f].finished = TRUE]
    /\ SwitchToMain(f, Position("exit", "-", NoValue, NoValue, NoValue, 0))
    /\ last' = NoCall
    /\ UNCHANGED <<g_pending_thread_count, g_next_handle, g_main_fiber,
                   g_current_thread, host_fibers, crashed, awaiting_resume>>

\* thread_yield's SwitchToFiber returns: the primitive sets r3 = 0 and returns
ResumeFromYield(f) ==
    /\ ParkedAt(f, "yield")
    /\ Complete(f, fiber_pc[f], 0)
    /\ UNCHANGED <<g_pending_threads, g_pending_thread_count, g_next_handle,
                   g_main_fiber, g_current_thread, cur_fiber, host_fibers, crashed, awaiting_resume>>

\* thread_give_timeslice's SwitchToFiber returns: g_current_thread = nullptr,
\* then the caller goes on
ResumeFromGrant(f) ==
    /\ ParkedAt(f, "grant")
    /\ g_current_thread' = NULL_THREAD
    /\ AfterTimeslice(f, fiber_pc[f])
    /\ UNCHANGED <<g_pending_threads, g_pending_thread_count, g_next_handle,
                   g_main_fiber, cur_fiber, host_fibers, crashed, awaiting_resume>>

\* ------------------------------------------------------------------------
\* Bump allocator: 32-bit arithmetic
\* ------------------------------------------------------------------------
\* A uint32_t is kept as <<high half-word, low half-word>>, so that sums and
\* roundings wrap modulo 2^32 exactly as the code's do.
Half == 2 ^ 16

\* a + b as uint32_t
Add32(a, b) ==
    <<(a[1] + b[1] + ((a[2] + b[2]) \div Half)) % Half, (a[2] + b[2]) % Half>>

\* a + b as the integer it is (the high part may exceed a half-word)
MathAdd(a, b) ==
    <<a[1] + b[1] + ((a[2] + b[2]) \div Half), (a[2] + b[2]) % Half>>

\* a <= b, a < b
LE32(a, b) == a[1] < b[1] \/ (a[1] = b[1] /\ a[2] <= b[2])

LT32(a, b) == a[1] < b[1] \/ (a[1] = b[1] /\ a[2] < b[2])

\* (size + mask) & ~mask as uint32_t, mask = 0xFFF or 0xF
AlignUp32(size, mask) ==
    LET s == Add32(size, <<0, mask>>) IN <<s[1], s[2] - (s[2] % (mask + 1))>>

\* size rounded up to a multiple of mask + 1, as the integer it is
MathAlign(size, mask) ==
    LET s == MathAdd(size, <<0, mask>>) IN <<s[1], s[2] - (s[2] % (mask + 1))>>

\* a is a multiple of mask + 1
Aligned32(a, mask) == a[2] % (mask + 1) = 0

\* static uint32_t g_heap_next = 0xA0000000
HEAP_START == <<40960, 0>>

\* static constexpr uint32_t g_heap_end = 0xB0000000
g_heap_end == <<45056, 0>>

\* 4 KiB page mask 0xFFF, 16-byte mask 0xF
PAGE_MASK == 4095

POOL_MASK == 15

\* s_cmd_size = 0x10000, sizeof the execution id struct = 0x18
s_cmd_size == <<1, 0>>

EXEC_ID_SIZE == <<0, 24>>

ZERO32 == <<0, 0>>

\* STATUS_NO_MEMORY 0xC0000017, E_OUTOFMEMORY 0x8007000E
STATUS_NO_MEMORY == <<49152, 23>>

E_OUTOFMEMORY == <<32775, 14>>

\* no address: the call wrote nothing / zeroed nothing
NoAddr == <<>>

\* requested sizes the guest passes: 1, 16, 4096, 0x0FFFFFF0, 0x60000000,
\* 0xFFFFFFFF
RequestSizes ==
    {<<0, 1>>, <<0, 16>>, <<0, 4096>>, <<4095, 65520>>, <<24576, 0>>, <<65535, 65535>>}

AllocApis ==
    {"NtAllocateVirtualMemory", "MmAllocatePhysicalMemoryEx", "ExAllocatePoolWithTag",
     "ExAllocatePoolTypeWithTag", "XamAlloc"}

\* the rounding mask each API applies to the requested size
ApiMask(api) ==
    IF api \in {"NtAllocateVirtualMemory", "MmAllocatePhysicalMemoryEx"}
    THEN PAGE_MASK ELSE POOL_MASK

\* the request fits: cursor + rounded size <= g_heap_end, as integers
Fits(cursor, size, mask) == LE32(MathAdd(cursor, MathAlign(size, mask)), g_heap_end)

\* ------------------------------------------------------------------------
\* Bump allocator: the calls
\* ------------------------------------------------------------------------
\* the body the five allocation APIs share:
\*   size = (size + mask) & ~mask;
\*   if (g_heap_next + size <= g_heap_end) { addr = g_heap_next; g_heap_next += size;
\*       memset(base + addr, 0, size); ... } else { failure value }
\* `ok_r3` is r3 on success given the address, `fail_r3` on failure, `out`
\* whether the address is also written through an out pointer
BumpAlloc(api, req, ok_r3_is_addr, fail_r3, out) ==
    LET size == AlignUp32(req, ApiMask(api))
        addr == g_heap_next
    IN /\ IF LE32(Add32(g_heap_next, size), g_heap_end)
          THEN /\ g_heap_next' = Add32(g_heap_next, size)
               /\ allocs' = Append(allocs, [api |-> api, addr |-> addr, size |-> size])
               /\ heap_last' = [api |-> api, req |-> req, ok |-> TRUE,
                                r3 |-> IF ok_r3_is_addr THEN addr ELSE ZERO32,
                                out |-> IF out THEN addr ELSE NoAddr,
                                zeroed |-> <<addr, size>>, before |-> addr]
               /\ UNCHANGED heap_failed
          ELSE /\ heap_last' = [api |-> api, req |-> req, ok |-> FALSE,
                                r3 |-> fail_r3, out |-> NoAddr,
                                zeroed |-> NoAddr, before |-> addr]
               /\ heap_failed' = heap_failed \cup {req}
               /\ UNCHANGED <<g_heap_next, allocs>>
       /\ heap_all_fit' = (heap_all_fit /\ Fits(g_heap_next, req, ApiMask(api)))
       /\ UNCHANGED s_cmd_buf

\* __imp__NtAllocateVirtualMemory: *size_ptr = req; on success *base_ptr = addr,
\* *size_ptr = size, r3 = STATUS_SUCCESS, else r3 = STATUS_NO_MEMORY
NtAllocateVirtualMemory(req) ==
    BumpAlloc("NtAllocateVirtualMemory", req, FALSE, STATUS_NO_MEMORY, TRUE)

\* __imp__MmAllocatePhysicalMemoryEx: r4 = req; r3 = addr, or 0
MmAllocatePhysicalMemoryEx(req) ==
    BumpAlloc("MmAllocatePhysicalMemoryEx", req, TRUE, ZERO32, FALSE)

\* __imp__ExAllocatePoolWithTag: r4 = req; r3 = addr, or 0
ExAllocatePoolWithTag(req) ==
    BumpAlloc("ExAllocatePoolWithTag", req, TRUE, ZERO32, FALSE)

\* __imp__ExAllocatePoolTypeWithTag: r4 = req; r3 = addr, or 0
ExAllocatePoolTypeWithTag(req) ==
    BumpAlloc("ExAllocatePoolTypeWithTag", req, TRUE, ZERO32, FALSE)

\* __imp__XamAlloc: r4 = req; on success *out_ptr = addr, r3 = 0, else
\* r3 = E_OUTOFMEMORY
XamAlloc(req) ==
    BumpAlloc("XamAlloc", req, FALSE, E_OUTOFMEMORY, TRUE)

\* an advance of the cursor by `size` with no capacity check
UncheckedAdvance(api, size) ==
    /\ g_heap_next' = Add32(g_heap_next, size)
    /\ heap_last' = [api |-> api, req |-> size, ok |-> TRUE, r3 |-> ZERO32,
                     out |-> g_heap_next, zeroed |-> <<g_heap_next, size>>,
                     before |-> g_heap_next]
    /\ heap_all_fit' = FALSE
    /\ UNCHANGED <<allocs, heap_failed>>

\* __imp__VdGetSystemCommandBuffer: the buffer is carved on the first call
VdGetSystemCommandBuffer ==
    IF s_cmd_buf = ZERO32
    THEN /\ s_cmd_buf' = g_heap_next
         /\ UncheckedAdvance("VdGetSystemCommandBuffer", s_cmd_size)
    ELSE /\ heap_last' = [api |-> "VdGetSystemCommandBuffer", req |-> s_cmd_size,
                          ok |-> TRUE, r3 |-> ZERO32, out |-> s_cmd_buf,
                          zeroed |-> NoAddr, before |-> g_heap_next]
         /\ UNCHANGED <<g_heap_next, s_cmd_buf, allocs, heap_all_fit, heap_failed>>

\* __imp__XamGetExecutionId
XamGetExecutionId ==
    /\ UncheckedAdvance("XamGetExecutionId", EXEC_ID_SIZE)
    /\ UNCHANGED s_cmd_buf

\* ------------------------------------------------------------------------
\* Indirect dispatch (ppc_config.h, PPC_CALL_INDIRECT_FUNC)
\* ------------------------------------------------------------------------
\* PPC_CODE_BASE 0x82090000, PPC_CODE_SIZE 0x2FD8F8
PPC_CODE_BASE == <<33289, 0>>

PPC_CODE_SIZE == <<47, 55544>>

\* (uint32_t)(PPC_CODE_BASE + PPC_CODE_SIZE) = 0x8238D8F8
PPC_CODE_END == Add32(PPC_CODE_BASE, PPC_CODE_SIZE)

\* the call sites of the generated code: every expansion of the macro has a
\* static _oor_count of its own
CallSites == {1, 2}

\* the guest addresses PPCFuncMappings binds to a host function, written to
\* the table by ppc_populate_func_table: 0x82090000 and 0x8238D8F0
FuncTable == {<<33289, 0>>, <<33336, 55536>>}

\* targets a dispatch is made with: 0, 0x1000 and 0x8208FFFC below the code,
\* the two bound addresses, 0x82090004 and 0x8238D8F4 in the code with an
\* empty slot, 0x8238D8F8 (the first address past the code), 0xFFFFFFFC
IcallTargets ==
    {<<0, 0>>, <<0, 4096>>, <<33288, 65532>>, <<33289, 0>>, <<33336, 55536>>,
     <<33289, 4>>, <<33336, 55540>>, <<33336, 55544>>, <<65535, 65532>>}

\* the warning thresholds: g_null_icall_count <= 5, ++_oor_count <= 20
NULL_WARNINGS == 5

OOR_WARNINGS == 20

NoIcall ==
    [site |-> 0, target |-> ZERO32, r3 |-> 0, invoked |-> 0, warned |-> FALSE,
     returned |-> TRUE, null_before |-> 0, oor_before |-> 0]

\* the dispatch as it would be if the range test took the first address past
\* the code for a code address
PPC_CALL_INDIRECT_FUNC_EndInclusive(site, target, r3_in) ==
    /\ ~icall_aborted
    /\ LET oor_total == _oor_count[1] + _oor_count[2]
           done(r3, invoked, warned, returned) ==
               icall_last' = [site |-> site, target |-> target, r3 |-> r3,
                              invoked |-> invoked, warned |-> warned,
                              returned |-> returned,
                              null_before |-> g_null_icall_count,
                              oor_before |-> oor_total]
       IN IF target = ZERO32
          THEN /\ g_null_icall_count' = g_null_icall_count + 1
               /\ done(0, 0, g_null_icall_count + 1 <= NULL_WARNINGS, TRUE)
               /\ UNCHANGED <<_oor_count, icall_aborted>>
          ELSE IF LT32(target, PPC_CODE_BASE) \/ LT32(PPC_CODE_END, target)
          THEN /\ _oor_count' = [_oor_count EXCEPT ![site] = @ + 1]
               /\ done(0, 0, _oor_count[site] + 1 <= OOR_WARNINGS, TRUE)
               /\ UNCHANGED <<g_null_icall_count, icall_aborted>>
          ELSE IF target \notin FuncTable
          THEN \* [FATAL] ... NULL function slot; abort()
               /\ icall_aborted' = TRUE
               /\ done(r3_in, 0, FALSE, FALSE)
               /\ UNCHANGED <<g_null_icall_count, _oor_count>>
          ELSE \* _fn(ctx, base): r3 is what the callee leaves in it
               /\ done(r3_in, 1, FALSE, TRUE)
               /\ UNCHANGED <<g_null_icall_count, _oor_count, icall_aborted>>

\* the dispatch as it would be if an empty function-table slot were
\* recoverable
PPC_CALL_INDIRECT_FUNC_SkipsEmptySlot(site, target, r3_in) ==
    /\ ~icall_aborted
    /\ LET oor_total == _oor_count[1] + _oor_count[2]
           done(r3, invoked, warned, returned) ==
               icall_last' = [site |-> site, target |-> target, r3 |-> r3,
                              invoked |-> invoked, warned |-> warned,
                              returned |-> returned,
                              null_before |-> g_null_icall_count,
                              oor_before |-> oor_total]
       IN IF target = ZERO32
          THEN /\ g_null_icall_count' = g_null_icall_count + 1
               /\ done(0, 0, g_null_icall_count + 1 <= NULL_WARNINGS, TRUE)
               /\ UNCHANGED <<_oor_count, icall_aborted>>
          ELSE IF LT32(target, PPC_CODE_BASE) \/ LE32(PPC_CODE_END, target)
          THEN /\ _oor_count' = [_oor_count EXCEPT ![site] = @ + 1]
               /\ done(0, 0, _oor_count[site] + 1 <= OOR_WARNINGS, TRUE)
               /\ UNCHANGED <<g_null_icall_count, icall_aborted>>
          ELSE IF target \notin FuncTable
          THEN \* the empty slot is skipped like an address outside the code
               /\ done(0, 0, FALSE, TRUE)
               /\ UNCHANGED <<g_null_icall_count, _oor_count, icall_aborted>>
          ELSE \* _fn(ctx, base): r3 is what the callee leaves in it
               /\ done(r3_in, 1, FALSE, TRUE)
               /\ UNCHANGED <<g_null_icall_count, _oor_count, icall_aborted>>

\* PPC_CALL_INDIRECT_FUNC(target) expanded at call site `site`, entered with
\* r3 = r3_in
PPC_CALL_INDIRECT_FUNC(site, target, r3_in) ==
    /\ ~icall_aborted
    /\ LET oor_total == _oor_count[1] + _oor_count[2]
           done(r3, invoked, warned, returned) ==
               icall_last' = [site |-> site, target |-> target, r3 |-> r3,
                              invoked |-> invoked, warned |-> warned,
                              returned |-> returned,
                              null_before |-> g_null_icall_count,
                              oor_before |-> oor_total]
       IN IF target = ZERO32
          THEN /\ g_null_icall_count' = g_null_icall_count + 1
               /\ done(0, 0, g_null_icall_count + 1 <= NULL_WARNINGS, TRUE)
               /\ UNCHANGED <<_oor_count, icall_aborted>>
          ELSE IF LT32(target, PPC_CODE_BASE) \/ LE32(PPC_CODE_END, target)
          THEN /\ _oor_count' = [_oor_count EXCEPT ![site] = @ + 1]
               /\ done(0, 0, _oor_count[site] + 1 <= OOR_WARNINGS, TRUE)
               /\ UNCHANGED <<g_null_icall_count, icall_aborted>>
          ELSE IF target \notin FuncTable
          THEN \* [FATAL] ... NULL function slot; abort()
               /\ icall_aborted' = TRUE
               /\ done(r3_in, 0, FALSE, FALSE)
               /\ UNCHANGED <<g_null_icall_count, _oor_count>>
          ELSE \* _fn(ctx, base): r3 is what the callee leaves in it
               /\ done(r3_in, 1, FALSE, TRUE)
               /\ UNCHANGED <<g_null_icall_count, _oor_count, icall_aborted>>

\* ------------------------------------------------------------------------
\* File I/O: path translation
\* ------------------------------------------------------------------------
\* A std::string is the sequence of its characters.
GAME_LOWER == <<"g", "a", "m", "e", ":">>

GAME_UPPER == <<"G", "A", "M", "E", ":">>

EXTRACTED == <<"e", "x", "t", "r", "a", "c", "t", "e", "d", "/">>

\* for (auto& c : path) if (c == '\\') c = '/';
NormalizeSlashes(path) ==
    [i \in 1 .. Len(path) |-> IF path[i] = "\\" THEN "/" ELSE path[i]]

\* std::string::substr(pos): the characters from index pos (0-based) on
SubstrFrom(path, pos) == SubSeq(path, pos + 1, Len(path))

\* xbox_path_to_host as it would be if the separator after the prefix were
\* kept
xbox_path_to_host_KeepsSeparator(xbox_path) ==
    LET path == NormalizeSlashes(xbox_path)
    IN IF Len(path) >= 5 /\ (SubSeq(path, 1, 5) = GAME_LOWER \/ SubSeq(path, 1, 5) = GAME_UPPER)
       THEN EXTRACTED \o SubstrFrom(path, 5)
       ELSE path

\* xbox_path_to_host(xbox_path)
xbox_path_to_host(xbox_path) ==
    LET path == NormalizeSlashes(xbox_path)
    IN IF Len(path) >= 5 /\ (SubSeq(path, 1, 5) = GAME_LOWER \/ SubSeq(path, 1, 5) = GAME_UPPER)
       THEN LET rest == SubstrFrom(path, 5)
            IN EXTRACTED \o (IF rest # <<>> /\ rest[1] = "/" THEN SubstrFrom(rest, 1) ELSE rest)
       ELSE path

\* ------------------------------------------------------------------------
\* File I/O: the handle table
\* ------------------------------------------------------------------------
FileSlots == 0 .. (MAX_FILE_HANDLES - 1)

\* struct HandleEntry, zero-initialised; fp is "the FILE* is non-null" and
\* fpos the position of that stream
HandleEntry ==
    [type |-> "HANDLE_NONE", fp |-> FALSE, fpos |-> 0, host_path |-> <<>>,
     file_size |-> 0, dir_entries |-> <<>>, dir_index |-> 0]

\* status codes: 0, 0xC0000034, 0xC0000008, 0xC000009A, 0x80000006, 0x80000005,
\* 0xC0000003
STATUS_SUCCESS == <<0, 0>>

STATUS_OBJECT_NAME_NOT_FOUND == <<49152, 52>>

STATUS_INVALID_HANDLE == <<49152, 8>>

STATUS_INSUFFICIENT_RESOURCES == <<49152, 154>>

STATUS_NO_MORE_FILES == <<32768, 6>>

STATUS_BUFFER_OVERFLOW == <<32768, 5>>

STATUS_INVALID_INFO_CLASS == <<49152, 3>>

\* g_file_handles is kept as the function from the slots in use to their
\* entries: a slot outside its domain holds the zero entry, type HANDLE_NONE
\* (handle_free puts every field back to zero).
SlotEntry(tbl, i) == IF i \in DOMAIN tbl THEN tbl[i] ELSE HandleEntry

\* the slot handle_alloc's loop stops at: the first one of type HANDLE_NONE
\* (NoValue, -1, when there is none)
FirstFreeSlot(tbl) ==
    IF FileSlots \subseteq DOMAIN tbl THEN NoValue
    ELSE CHOOSE i \in FileSlots :
            i \notin DOMAIN tbl /\ \A j \in 0 .. (i - 1) : j \in DOMAIN tbl

\* handle_alloc(type, fp, path, size): the table with the slot filled
handle_alloc(tbl, type, fp, path, size) ==
    (FirstFreeSlot(tbl) :> [type |-> type, fp |-> fp, fpos |-> 0, host_path |-> path,
                            file_size |-> size, dir_entries |-> <<>>, dir_index |-> 0])
    @@ tbl

\* handle_lookup(handle): the slot of an entry in use, NoValue for nullptr
handle_lookup(handle) ==
    IF handle < FILE_HANDLE_BASE THEN NoValue
    ELSE IF handle - FILE_HANDLE_BASE >= MAX_FILE_HANDLES THEN NoValue
    ELSE IF SlotEntry(g_file_handles, handle - FILE_HANDLE_BASE).type = "HANDLE_NONE"
    THEN NoValue
    ELSE handle - FILE_HANDLE_BASE

\* handle_free(handle)
handle_free(handle) ==
    IF handle < FILE_HANDLE_BASE \/ handle - FILE_HANDLE_BASE >= MAX_FILE_HANDLES
    THEN g_file_handles
    ELSE [i \in DOMAIN g_file_handles \ {handle - FILE_HANDLE_BASE} |-> g_file_handles[i]]

\* ------------------------------------------------------------------------
\* File I/O: the host file system (what stat / GetFileAttributes, fopen and
\* readdir / FindFirstFile answer)
\* ------------------------------------------------------------------------
\* extracted/a is a file of 5 bytes, extracted/d a directory of three entries
HostFilePaths == {EXTRACTED \o <<"a">>}

HostDirPaths == {EXTRACTED \o <<"d">>}

HostFileSize(path) == 5

HostListing ==
    << [name |-> <<"a">>, size |-> 5, is_directory |-> FALSE],
       [name |-> <<"s", "u", "b">>, size |-> 0, is_directory |-> TRUE],
       [name |-> <<"l", "o", "n", "g", ".", "b", "i", "n">>, size |-> 9, is_directory |-> FALSE] >>

\* a directory is found with and without a trailing slash, a file only without
HostIsDirectory(path) ==
    path \in HostDirPaths \cup {d \o <<"/">> : d \in HostDirPaths}

HostExists(path) == path \in HostFilePaths \/ HostIsDirectory(path)

\* while (!s.empty() && s.back() == '/') s.pop_back();
RECURSIVE TrimSlashes(_)
TrimSlashes(path) ==
    IF path # <<>> /\ path[Len(path)] = "/"
    THEN TrimSlashes(SubSeq(path, 1, Len(path) - 1))
    ELSE path

\* the entries the enumeration at open time pushes into dir_entries ("." and
\* ".." skipped); nothing when the path cannot be enumerated
EnumerateDirectory(host_path) ==
    IF TrimSlashes(host_path) \in HostDirPaths THEN HostListing ELSE <<>>

\* ------------------------------------------------------------------------
\* File I/O: the calls
\* ------------------------------------------------------------------------
\* the completion block is not written
NoIosb == <<>>

NoFileCall ==
    [op |-> "-", handle |-> NoValue, name |-> <<>>, len |-> 0, r3 |-> STATUS_SUCCESS,
     out |-> NoValue, iosb |-> NoIosb, records |-> <<>>, before |-> 0]

\* what a call reports: r3, the handle written through FileHandle*, the
\* completion block <<status, information>>, the records written to the
\* buffer; `before` is the position a read started at, and the number of
\* entries returned earlier for a directory query, and the information class
\* of NtQueryInformationFile
FileCall(op, handle, name, len, r3, out, iosb, records, before) ==
    [op |-> op, handle |-> handle, name |-> name, len |-> len, r3 |-> r3,
     out |-> out, iosb |-> iosb, records |-> records, before |-> before]

\* parse_object_name: the name, or "" for a null ObjectAttributes, a null
\* ObjectName, a null buffer, a length of 0 or of 512 and more
NameDescriptors == {"ok", "null_oa", "null_name", "null_buffer", "zero_length", "too_long"}

parse_object_name(desc, name) == IF desc = "ok" THEN name ELSE <<>>

\* an open as it would be if a failure also filled in the completion block
OpenFails_WritesIosb(op, xbox_name, status) ==
    /\ file_last' = FileCall(op, NoValue, xbox_name, 0, status, NoValue, <<status, 0>>,
                             <<>>, 0)
    /\ UNCHANGED <<g_file_handles, dir_returned, host_fps>>

\* NtOpenFile_impl's failure returns: ctx.r3.u32 = status; return;
OpenFails(op, xbox_name, status) ==
    /\ file_last' = FileCall(op, NoValue, xbox_name, 0, status, NoValue, NoIosb, <<>>, 0)
    /\ UNCHANGED <<g_file_handles, dir_returned, host_fps>>

\* the return for a full table as it would be without the fclose
OpenFull_LeavesFileOpen(op, xbox_name) ==
    /\ file_last' = FileCall(op, NoValue, xbox_name, 0, STATUS_INSUFFICIENT_RESOURCES,
                             NoValue, NoIosb, <<>>, 0)
    /\ host_fps' = host_fps + 1
    /\ UNCHANGED <<g_file_handles, dir_returned>>

\* a regular file was opened with fopen and handle_alloc found no slot:
\* fclose(fp); ctx.r3.u32 = 0xC000009A; return;
OpenFull(op, xbox_name) ==
    /\ file_last' = FileCall(op, NoValue, xbox_name, 0, STATUS_INSUFFICIENT_RESOURCES,
                             NoValue, NoIosb, <<>>, 0)
    /\ host_fps' = (host_fps + 1) - 1
    /\ UNCHANGED <<g_file_handles, dir_returned>>

\* NtOpenFile_impl's success returns, tbl being the table after handle_alloc
\* filled `slot`: the handle and the completion block (0, FILE_OPENED) are
\* written, r3 = STATUS_SUCCESS
OpenSucceeds(op, xbox_name, iosb_addr, tbl, slot) ==
    /\ g_file_handles' = tbl
    /\ host_fps' = IF tbl[slot].fp THEN host_fps + 1 ELSE host_fps
    /\ dir_returned' = (slot :> <<>>) @@ dir_returned
    /\ file_last' = FileCall(op, NoValue, xbox_name, 0, STATUS_SUCCESS,
                             FILE_HANDLE_BASE + slot,
                             IF iosb_addr THEN <<STATUS_SUCCESS, 1>> ELSE NoIosb,
                             <<>>, 0)

\* NtOpenFile_impl: r5 = ObjectAttributes* (desc, name), r6 = IoStatusBlock*
\* (iosb_addr: non-null or not); fopen_ok is whether fopen succeeds on an
\* existing regular file
NtOpenFile_impl(op, desc, name, iosb_addr, fopen_ok) ==
    LET xbox_name == parse_object_name(desc, name)
    IN IF xbox_name = <<>>
       THEN OpenFails(op, xbox_name, STATUS_OBJECT_NAME_NOT_FOUND)
       ELSE LET first_path == xbox_path_to_host(xbox_name)
                trimmed == TrimSlashes(first_path)
                retry == ~HostExists(first_path) /\ trimmed # <<>> /\ trimmed # first_path
                exists == HostExists(first_path) \/ (retry /\ HostExists(trimmed))
                host_path == IF retry /\ HostExists(trimmed) THEN trimmed ELSE first_path
                is_dir == \/ first_path # <<>> /\ first_path[Len(first_path)] = "/"
                          \/ HostExists(first_path) /\ HostIsDirectory(first_path)
                          \/ retry /\ HostExists(trimmed) /\ HostIsDirectory(trimmed)
                slot == FirstFreeSlot(g_file_handles)
            IN IF ~exists
               THEN OpenFails(op, xbox_name, STATUS_OBJECT_NAME_NOT_FOUND)
               ELSE IF is_dir
               THEN IF slot = NoValue
                    THEN OpenFails(op, xbox_name, STATUS_INSUFFICIENT_RESOURCES)
                    ELSE OpenSucceeds(op, xbox_name, iosb_addr,
                                      [handle_alloc(g_file_handles, "HANDLE_DIRECTORY", FALSE,
                                                    host_path, 0)
                                          EXCEPT ![slot].dir_entries =
                                                     EnumerateDirectory(host_path)],
                                      slot)
               ELSE IF ~fopen_ok
               THEN OpenFails(op, xbox_name, STATUS_OBJECT_NAME_NOT_FOUND)
               ELSE IF slot = NoValue
               THEN OpenFull(op, xbox_name)
               ELSE OpenSucceeds(op, xbox_name, iosb_addr,
                                 handle_alloc(g_file_handles, "HANDLE_FILE", TRUE, host_path,
                                              HostFileSize(host_path)),
                                 slot)

\* __imp__NtOpenFile and __imp__NtCreateFile
NtOpenFile(desc, name, iosb_addr, fopen_ok) ==
    NtOpenFile_impl("NtOpenFile", desc, name, iosb_addr, fopen_ok)

NtCreateFile(desc, name, iosb_addr, fopen_ok) ==
    NtOpenFile_impl("NtCreateFile", desc, name, iosb_addr, fopen_ok)

\* fread as it would be if it always reported the whole length as transferred
fread_NeverShort(size, pos, length) == length

\* fread(buf, 1, length, fp) on a file of `size` bytes at position `pos`: the
\* bytes transferred
fread(size, pos, length) ==
    IF pos >= size THEN 0 ELSE IF length <= size - pos THEN length ELSE size - pos

\* __imp__NtReadFile: r3 = FileHandle, r7 = IoStatusBlock* (non-null or not),
\* r9 = Length, r10 = ByteOffset* (non-null or not) and the 64-bit offset it
\* points to. _fseeki64 refuses a negative offset and leaves the position.
NtReadFile(handle_val, iosb_addr, length, offset_ptr, offset) ==
    LET entry == handle_lookup(handle_val)
    IN IF \/ entry = NoValue
          \/ g_file_handles[entry].type # "HANDLE_FILE"
          \/ ~g_file_handles[entry].fp
       THEN /\ file_last' = FileCall("NtReadFile", handle_val, <<>>, length,
                                     STATUS_INVALID_HANDLE, NoValue, NoIosb, <<>>, 0)
            /\ UNCHANGED <<g_file_handles, dir_returned>>
       ELSE LET he == g_file_handles[entry]
                pos == IF offset_ptr /\ offset >= 0 THEN offset ELSE he.fpos
                bytes_read == fread(he.file_size, pos, length)
            IN /\ g_file_handles' = [g_file_handles EXCEPT ![entry].fpos = pos + bytes_read]
               /\ file_last' = FileCall("NtReadFile", handle_val, <<>>, length,
                                        STATUS_SUCCESS, NoValue,
                                        IF iosb_addr THEN <<STATUS_SUCCESS, bytes_read>>
                                        ELSE NoIosb,
                                        IF bytes_read > 0
                                        THEN <<[offset |-> 0, size |-> bytes_read]>>
                                        ELSE <<>>,
                                        pos)
               /\ UNCHANGED dir_returned

\* FileDirectoryInformation: 0x40 bytes of header, then the name
DIR_HEADER_SIZE == 64

\* the aligned size as it would be without rounding
AlignUp8_NoRounding(n) == n

\* (entry_size + 7) & ~7u
AlignUp8(n) == ((n + 7) \div 8) * 8

\* the packing loop of NtQueryDirectoryFile from entry `idx` (0-based) with
\* the buffer filled up to `offset`: the records written, each with its
\* place in the buffer, the bytes zeroed for it and the entry it carries
RECURSIVE PackEntries(_, _, _, _)
PackEntries(entries, idx, offset, info_len) ==
    IF idx >= Len(entries) THEN <<>>
    ELSE LET de == entries[idx + 1]
             entry_size == DIR_HEADER_SIZE + Len(de.name)
             aligned_size == AlignUp8(entry_size)
         IN IF offset + entry_size > info_len
            THEN <<>>
            ELSE <<[offset |-> offset,
                    zeroed |-> IF offset + aligned_size <= info_len
                               THEN aligned_size ELSE entry_size,
                    advance |-> aligned_size,
                    FileIndex |-> idx,
                    EndOfFile |-> de.size,
                    FileAttributes |-> IF de.is_directory THEN 16 ELSE 128,
                    FileNameLength |-> Len(de.name),
                    FileName |-> de.name,
                    entry |-> de]>>
                 \o PackEntries(entries, idx + 1, offset + aligned_size, info_len)

\* NextEntryOffset of every record: the distance to the next one, 0 in the last
LinkRecords(recs) ==
    [k \in 1 .. Len(recs) |->
        [offset |-> recs[k].offset, zeroed |-> recs[k].zeroed,
         NextEntryOffset |-> IF k < Len(recs) THEN recs[k + 1].offset - recs[k].offset ELSE 0,
         FileIndex |-> recs[k].FileIndex, EndOfFile |-> recs[k].EndOfFile,
         FileAttributes |-> recs[k].FileAttributes,
         FileNameLength |-> recs[k].FileNameLength, FileName |-> recs[k].FileName]]

\* what NtQueryDirectoryFile reports for the slot `entry` (NoValue: none)
QueryReport(handle_val, info_len, entry, r3, iosb, records) ==
    file_last' = FileCall("NtQueryDirectoryFile", handle_val, <<>>, info_len, r3,
                          NoValue, iosb, records,
                          IF entry = NoValue THEN 0 ELSE Len(dir_returned[entry]))

\* the too-small-buffer return as it would be if the entry were given up
QueryTooSmall_DropsEntry(handle_val, info_len, entry) ==
    /\ QueryReport(handle_val, info_len, entry, STATUS_BUFFER_OVERFLOW, NoIosb, <<>>)
    /\ g_file_handles' = [g_file_handles EXCEPT ![entry].dir_index = @ + 1]
    /\ UNCHANGED dir_returned

\* if (first) { ctx.r3.u32 = 0x80000005; return; }: the buffer is too small
\* for even one entry
QueryTooSmall(handle_val, info_len, entry) ==
    /\ QueryReport(handle_val, info_len, entry, STATUS_BUFFER_OVERFLOW, NoIosb, <<>>)
    /\ UNCHANGED <<g_file_handles, dir_returned>>

\* the cursor as it would be if the loop stepped over one entry more
CursorAfter_SkipsOne(dir_index, recs) == dir_index + Len(recs) + 1

\* entry->dir_index++ for every record written
CursorAfter(dir_index, recs) == dir_index + Len(recs)

\* __imp__NtQueryDirectoryFile: r3 = FileHandle, r7 = IoStatusBlock* (non-null
\* or not), r9 = Length
NtQueryDirectoryFile(handle_val, iosb_addr, info_len) ==
    LET entry == handle_lookup(handle_val)
    IN IF entry = NoValue \/ g_file_handles[entry].type # "HANDLE_DIRECTORY"
       THEN /\ QueryReport(handle_val, info_len, entry, STATUS_INVALID_HANDLE, NoIosb, <<>>)
            /\ UNCHANGED <<g_file_handles, dir_returned>>
       ELSE LET he == g_file_handles[entry]
                recs == PackEntries(he.dir_entries, he.dir_index, 0, info_len)
                offset == IF recs = <<>> THEN 0
                          ELSE recs[Len(recs)].offset + recs[Len(recs)].advance
            IN IF he.dir_index >= Len(he.dir_entries)
               THEN /\ QueryReport(handle_val, info_len, entry, STATUS_NO_MORE_FILES,
                                   IF iosb_addr THEN <<STATUS_NO_MORE_FILES, 0>> ELSE NoIosb,
                                   <<>>)
                    /\ UNCHANGED <<g_file_handles, dir_returned>>
               ELSE IF recs = <<>>
               THEN QueryTooSmall(handle_val, info_len, entry)
               ELSE /\ g_file_handles' =
                          [g_file_handles EXCEPT
                              ![entry].dir_index = CursorAfter(he.dir_index, recs)]
                    /\ dir_returned' =
                          [dir_returned EXCEPT ![entry] =
                              @ \o [k \in 1 .. Len(recs) |-> recs[k].entry]]
                    /\ QueryReport(handle_val, info_len, entry, STATUS_SUCCESS,
                                   IF iosb_addr THEN <<STATUS_SUCCESS, offset>> ELSE NoIosb,
                                   LinkRecords(recs))

\* the bytes NtQueryInformationFile writes for a class: 24, 8 and 56
InformationSize(info_class) ==
    IF info_class = 5 THEN 24 ELSE IF info_class = 14 THEN 8 ELSE 56

\* what NtQueryInformationFile writes to FileInformation* when the buffer has
\* room for the class
InformationRecord(he, info_class) ==
    IF info_class = 5
    THEN [AllocationSize |-> he.file_size, EndOfFile |-> he.file_size,
          NumberOfLinks |-> 1, Directory |-> he.type = "HANDLE_DIRECTORY"]
    ELSE IF info_class = 14
    THEN [CurrentByteOffset |-> IF he.fp THEN he.fpos ELSE 0]
    ELSE [AllocationSize |-> he.file_size, EndOfFile |-> he.file_size,
          FileAttributes |-> IF he.type = "HANDLE_DIRECTORY" THEN 16 ELSE 128]

\* __imp__NtQueryInformationFile: r3 = FileHandle, r4 = IoStatusBlock*
\* (non-null or not), r6 = Length, r7 = FileInformationClass
NtQueryInformationFile(handle_val, iosb_addr, info_len, info_class) ==
    LET entry == handle_lookup(handle_val)
        report(r3, iosb, records) ==
            file_last' = FileCall("NtQueryInformationFile", handle_val, <<>>, info_len,
                                  r3, NoValue, iosb, records, info_class)
    IN /\ UNCHANGED <<g_file_handles, dir_returned>>
       /\ IF entry = NoValue
          THEN report(STATUS_INVALID_HANDLE, NoIosb, <<>>)
          ELSE IF info_class \in {5, 14, 34}
          THEN report(STATUS_SUCCESS,
                      IF iosb_addr THEN <<STATUS_SUCCESS, InformationSize(info_class)>>
                      ELSE NoIosb,
                      IF info_len >= InformationSize(info_class)
                      THEN <<InformationRecord(g_file_handles[entry], info_class)>>
                      ELSE <<>>)
          ELSE report(STATUS_INVALID_INFO_CLASS, NoIosb, <<>>)

\* NtClose as it would be if it answered success and kept the entry
NtClose_KeepsEntry(handle_val) ==
    /\ UNCHANGED <<g_file_handles, dir_returned, host_fps>>
    /\ file_last' = FileCall("NtClose", handle_val, <<>>, 0, STATUS_SUCCESS, NoValue,
                             NoIosb, <<>>, 0)

\* __imp__NtClose: r3 = handle
NtClose(handle_val) ==
    LET entry == handle_lookup(handle_val)
    IN /\ host_fps' = IF entry # NoValue /\ g_file_handles[entry].fp
                      THEN host_fps - 1 ELSE host_fps
       /\ IF entry # NoValue
          THEN /\ g_file_handles' = handle_free(handle_val)
               /\ dir_returned' = [i \in DOMAIN dir_returned \ {entry} |-> dir_returned[i]]
          ELSE UNCHANGED <<g_file_handles, dir_returned>>
       /\ file_last' = FileCall("NtClose", handle_val, <<>>, 0, STATUS_SUCCESS, NoValue,
                                NoIosb, <<>>, 0)

\* ------------------------------------------------------------------------
\* Generic kernel objects: events, timers, listeners
\* ------------------------------------------------------------------------
\* g_next_handle++ in a call that touches nothing else of the scheduler
TakeHandle ==
    /\ g_next_handle' = g_next_handle + 1
    /\ last' = NoCall
    /\ UNCHANGED <<g_pending_threads, g_pending_thread_count, g_main_fiber,
                   g_current_thread, cur_fiber, fiber_pc, host_fibers, crashed,
                   awaiting_resume>>

\* __imp__NtCreateEvent: the handle goes out through r3 = EventHandle*
NtCreateEvent ==
    /\ obj_last' = [api |-> "NtCreateEvent", id |-> g_next_handle, r3 |-> 0]
    /\ TakeHandle

\* __imp__NtCreateTimer: the handle goes out through r3 = TimerHandle*
NtCreateTimer ==
    /\ obj_last' = [api |-> "NtCreateTimer", id |-> g_next_handle, r3 |-> 0]
    /\ TakeHandle

\* __imp__XamNotifyCreateListener: the handle is the return value
XamNotifyCreateListener ==
    /\ obj_last' = [api |-> "XamNotifyCreateListener", id |-> g_next_handle,
                    r3 |-> g_next_handle]
    /\ TakeHandle

\* ------------------------------------------------------------------------
\* Status translation
\* ------------------------------------------------------------------------
\* the switch as it would be if its default handed the status back
RtlNtStatusToDosError_DefaultEchoes(status) ==
    IF status = <<0, 0>> THEN 0
    ELSE IF status = <<32768, 5>> THEN 234
    ELSE IF status = <<32768, 6>> THEN 18
    ELSE IF status = <<49152, 8>> THEN 6
    ELSE IF status = <<49152, 23>> THEN 8
    ELSE IF status = <<49152, 52>> THEN 2
    ELSE IF status = <<49152, 58>> THEN 3
    ELSE IF status = <<49152, 53>> THEN 183
    ELSE IF status = <<49152, 154>> THEN 8
    ELSE IF status = <<49152, 3>> THEN 87
    ELSE status[2]

\* __imp__RtlNtStatusToDosError: r3 = NTSTATUS as <<high half-word, low
\* half-word>>; the value is the DOS error left in r3
RtlNtStatusToDosError(status) ==
    IF status = <<0, 0>> THEN 0
    ELSE IF status = <<32768, 5>> THEN 234
    ELSE IF status = <<32768, 6>> THEN 18
    ELSE IF status = <<49152, 8>> THEN 6
    ELSE IF status = <<49152, 23>> THEN 8
    ELSE IF status = <<49152, 52>> THEN 2
    ELSE IF status = <<49152, 58>> THEN 3
    ELSE IF status = <<49152, 53>> THEN 183
    ELSE IF status = <<49152, 154>> THEN 8
    ELSE IF status = <<49152, 3>> THEN 87
    ELSE 1

\* ------------------------------------------------------------------------
\* LAN networking: the peer table
\* ------------------------------------------------------------------------
\* The instances on the LAN; instance h has the IP address h. Instance LocalHost
\* is the one under study: its discovery thread and its guest thread are
\* followed call by call.
Hosts == {1, 2}

LocalHost == 1

\* the IP addresses of other hosts on the LAN
PeerIPs == {2, 3}

Threads == {"disc", "guest"}

\* XNET_CONNECT_STATUS_IDLE and XNET_CONNECT_STATUS_CONNECTED
XNET_CONNECT_STATUS_IDLE == 0

XNET_CONNECT_STATUS_CONNECTED == 4

\* An XNADDR_LAN is kept as its ina and a tag that stands for the other 32
\* bytes; an XNKID as a number, 0 for eight zero bytes.
\* struct PeerEntry
PeerEntry(ina, tag, xnkid, connected) ==
    [ina |-> ina, tag |-> tag, xnkid |-> xnkid, connected |-> connected]

\* FindPeerByIP: the index of the first entry with the IP, 0 for nullptr
FindPeerByIP(peers, ip_net) ==
    IF \E i \in 1 .. Len(peers) : peers[i].ina = ip_net
    THEN CHOOSE i \in 1 .. Len(peers) :
            /\ peers[i].ina = ip_net
            /\ \A j \in 1 .. (i - 1) : peers[j].ina # ip_net
    ELSE 0

\* the entry found is still there (it always is while the mutex is held)
Found(peers, existing) == existing # 0 /\ existing <= Len(peers)

\* the two branches of AddOrUpdatePeer as they would be if an update put the
\* connected flag back to false
WritePeer_ResetsConnected(peers, existing, ina, tag, xnkid) ==
    IF Found(peers, existing)
    THEN [peers EXCEPT ![existing] = PeerEntry(ina, tag, xnkid, FALSE)]
    ELSE Append(peers, PeerEntry(ina, tag, xnkid, FALSE))

\* the two branches of AddOrUpdatePeer after FindPeerByIP: overwrite address
\* and key of the entry found, or push_back a new entry with connected = false
WritePeer(peers, existing, ina, tag, xnkid) ==
    IF Found(peers, existing)
    THEN [peers EXCEPT ![existing].ina = ina, ![existing].tag = tag,
                       ![existing].xnkid = xnkid]
    ELSE Append(peers, PeerEntry(ina, tag, xnkid, FALSE))

\* AddOrUpdatePeer(addr, xnkid) on a table, the mutex held throughout
AddOrUpdatePeer(peers, ina, tag, xnkid) ==
    WritePeer(peers, FindPeerByIP(peers, ina), ina, tag, xnkid)

\* XNetConnect's branches: set the flag of the entry found, or push_back an
\* entry that has only the IP and connected = true
ConnectPeer(peers, existing, ip_net) ==
    IF Found(peers, existing)
    THEN [peers EXCEPT ![existing].connected = TRUE]
    ELSE Append(peers, PeerEntry(ip_net, 0, 0, TRUE))

\* XNetUnregisterInAddr's loop: erase the first entry with the IP
ErasePeer(peers, existing) ==
    IF Found(peers, existing)
    THEN SubSeq(peers, 1, existing - 1) \o SubSeq(peers, existing + 1, Len(peers))
    ELSE peers

\* where a thread is: in no call, or in a call on the peer table with
\* g_peers_mutex held and FindPeerByIP's answer in `existing`
IdlePC == [op |-> "-", at |-> "idle", ip |-> 0, tag |-> 0, xnkid |-> 0, existing |-> 0]

NoNetCall == [op |-> "-", thread |-> "-", ip |-> 0, r3 |-> 0]

NetCall(op, thread, ip, r3) == [op |-> op, thread |-> thread, ip |-> ip, r3 |-> r3]

\* std::unique_lock lock(g_peers_mutex) as it would be if it excluded nobody
CanLock_NoExclusion == TRUE

\* std::unique_lock lock(g_peers_mutex) and std::shared_lock can be taken:
\* no thread holds the mutex exclusively
CanLock == g_peers_mutex = "none"

\* the calls that go through AddOrUpdatePeer
AddCalls == {"Beacon", "XNetXnAddrToInAddr", "XNetQosLookup"}

\* a thread enters a call on the peer table: it takes the mutex and looks
\* the IP up
LockAndFind(t, op, ip, tag, xnkid) ==
    /\ net_pc[t].at = "idle"
    /\ CanLock
    /\ g_peers_mutex' = t
    /\ net_pc' = [net_pc EXCEPT ![t] =
                     [op |-> op, at |-> "held", ip |-> ip, tag |-> tag, xnkid |-> xnkid,
                      existing |-> FindPeerByIP(g_peers[LocalHost], ip)]]
    /\ UNCHANGED <<g_peers, g_qos_active, g_disc_running, disc_socket, connect_called,
                   net_last>>

\* the thread writes the table, releases the mutex and returns
WriteAndUnlock(t) ==
    /\ net_pc[t].at = "held"
    /\ LET pc == net_pc[t]
           peers == g_peers[LocalHost]
       IN /\ g_peers' =
                [g_peers EXCEPT ![LocalHost] =
                    IF pc.op \in AddCalls
                    THEN WritePeer(peers, pc.existing, pc.ip, pc.tag, pc.xnkid)
                    ELSE IF pc.op = "XNetConnect"
                    THEN ConnectPeer(peers, pc.existing, pc.ip)
                    ELSE ErasePeer(peers, pc.existing)]
          /\ connect_called' =
                IF pc.op = "XNetConnect" THEN connect_called \cup {pc.ip}
                ELSE IF pc.op = "XNetUnregisterInAddr" THEN connect_called \ {pc.ip}
                ELSE connect_called
          /\ net_last' = NetCall(pc.op, t, pc.ip, 0)
    /\ g_peers_mutex' = "none"
    /\ net_pc' = [net_pc EXCEPT ![t] = IdlePC]
    /\ UNCHANGED <<g_qos_active, g_disc_running, disc_socket>>

\* DiscoveryThreadFunc has received a Beacon that is not its own and calls
\* AddOrUpdatePeer(*sender_addr, xnkid)
DiscoveryAddsPeer(ip, tag) ==
    /\ g_disc_running[LocalHost]
    /\ LockAndFind("disc", "Beacon", ip, tag, tag)

\* __imp__NetDll_XNetXnAddrToInAddr: r4 = the XNADDR, r5 = the XNKID or null
\* (then the key is eight zero bytes)
XNetXnAddrToInAddr(ip, tag, xnkid) ==
    LockAndFind("guest", "XNetXnAddrToInAddr", ip, tag, xnkid)

\* CollectBeaconResponses, called by XNetQosLookup on the guest thread, has
\* received a Beacon and calls AddOrUpdatePeer(resp.host_addr, resp.xnkid)
QosLookupAddsPeer(ip, tag) ==
    LockAndFind("guest", "XNetQosLookup", ip, tag, tag)

\* __imp__NetDll_XNetConnect with a non-null r4
XNetConnect(ip) == LockAndFind("guest", "XNetConnect", ip, 0, 0)

\* __imp__NetDll_XNetUnregisterInAddr with a non-null r4
XNetUnregisterInAddr(ip) == LockAndFind("guest", "XNetUnregisterInAddr", ip, 0, 0)

\* __imp__NetDll_XNetGetConnectStatus: r4 points to the IP, or is null (ip = 0);
\* the table is read under the shared lock
XNetGetConnectStatus(ip) ==
    /\ net_pc["guest"].at = "idle"
    /\ CanLock
    /\ LET peer == FindPeerByIP(g_peers[LocalHost], ip)
       IN net_last' =
             NetCall("XNetGetConnectStatus", "guest", ip,
                     IF ip # 0 /\ peer # 0 /\ g_peers[LocalHost][peer].connected
                     THEN XNET_CONNECT_STATUS_CONNECTED
                     ELSE XNET_CONNECT_STATUS_IDLE)
    /\ UNCHANGED <<g_peers, g_peers_mutex, g_qos_active, g_disc_running, disc_socket,
                   net_pc, connect_called>>

\* ctx.r3.u64 = 0x80070057, as <<high half-word, low half-word>>
E_INVALIDARG == <<32775, 87>>

\* uint8_t* ip_bytes = (uint8_t*)&ip_net: the four bytes of the IP in the
\* order they lie in memory
IpBytes(ip_net) ==
    <<ip_net % 256, (ip_net \div 256) % 256, (ip_net \div 65536) % 256,
      (ip_net \div 16777216) % 256>>

\* the synthesized address as it would be if it did not carry the IP
SynthXnAddr_WithoutIP(ip_net) ==
    [ina |-> 0, inaOnline |-> 0, abEnet |-> <<0, 80, 0, 0, 0, 0>>]

\* XNADDR_LAN synth = {} with ina, inaOnline and abEnet filled in: 0x00, 0x50
\* and the IP's bytes
SynthXnAddr(ip_net) ==
    [ina |-> ip_net, inaOnline |-> ip_net, abEnet |-> <<0, 80>> \o IpBytes(ip_net)]

\* __imp__NetDll_XNetInAddrToXnAddr: r4 = inaddr_ptr, which points to ip_net
\* when it is not null; the table is read under the shared lock; what is
\* written through r5 and r6 is kept in xnaddr and xnkid
XNetInAddrToXnAddr(inaddr_ptr, ip_net) ==
    /\ net_pc["guest"].at = "idle"
    /\ inaddr_ptr # 0 => CanLock
    /\ net_last' =
          IF inaddr_ptr = 0
          THEN [op |-> "XNetInAddrToXnAddr", thread |-> "guest", ip |-> 0,
                inaddr_ptr |-> 0, r3 |-> E_INVALIDARG, xnaddr |-> NoValue,
                xnkid |-> NoValue]
          ELSE LET peer == FindPeerByIP(g_peers[LocalHost], ip_net)
               IN [op |-> "XNetInAddrToXnAddr", thread |-> "guest", ip |-> ip_net,
                   inaddr_ptr |-> inaddr_ptr, r3 |-> ZERO32,
                   xnaddr |-> IF peer # 0
                              THEN [ina |-> g_peers[LocalHost][peer].ina,
                                    tag |-> g_peers[LocalHost][peer].tag]
                              ELSE SynthXnAddr(ip_net),
                   xnkid |-> IF peer # 0 THEN g_peers[LocalHost][peer].xnkid ELSE 0]
    /\ UNCHANGED <<g_peers, g_peers_mutex, g_qos_active, g_disc_running, disc_socket,
                   net_pc, connect_called>>

\* NetShutdown: stops and joins the discovery thread, then clears the peer
\* table and the listener
NetShutdown ==
    /\ net_pc["guest"].at = "idle"
    /\ net_pc["disc"].at = "idle"
    /\ g_disc_running[LocalHost]
    /\ g_disc_running' = [g_disc_running EXCEPT ![LocalHost] = FALSE]
    /\ g_peers' = [g_peers EXCEPT ![LocalHost] = <<>>]
    /\ g_qos_active' = [g_qos_active EXCEPT ![LocalHost] = FALSE]
    /\ connect_called' = {}
    /\ net_last' = NetCall("NetShutdown", "guest", 0, 0)
    /\ UNCHANGED <<g_peers_mutex, disc_socket, net_pc>>

\* NetInit: starts the discovery thread
NetInit ==
    /\ net_pc["guest"].at = "idle"
    /\ ~g_disc_running[LocalHost]
    /\ g_disc_running' = [g_disc_running EXCEPT ![LocalHost] = TRUE]
    /\ net_last' = NetCall("NetInit", "guest", 0, 0)
    /\ UNCHANGED <<g_peers, g_peers_mutex, g_qos_active, disc_socket, net_pc,
                   connect_called>>

\* ------------------------------------------------------------------------
\* LAN networking: discovery and QoS lookup
\* ------------------------------------------------------------------------
\* A discovery datagram: its type, the IP in its address block, the tag of
\* the rest of the block and of the key, and the address it was sent from.
\* Only well-formed datagrams are followed: a Probe has DISC_HEADER_LEN
\* bytes, a Beacon at least two more.
Packet(type, ina, tag, from) == [type |-> type, ina |-> ina, tag |-> tag, from |-> from]

\* INADDR_BROADCAST as a destination
BROADCAST == 255

Datagram(pkt, dest) == [pkt |-> pkt, dest |-> dest]

\* SendBeacon(sock, dest) on instance h: nothing when the listener is not
\* active, else one Beacon with the local address block
SendBeacon(h, dest) ==
    IF g_qos_active[h] THEN <<Datagram(Packet("beacon", h, 1, h), dest)>> ELSE <<>>

\* SendProbe(sock, target_kid) on instance h: one Probe to the broadcast
\* address
SendProbe(h) == <<Datagram(Packet("probe", h, 1, h), BROADCAST)>>

\* sendto: the datagram reaches the discovery socket of every instance it is
\* addressed to whose socket is open, the sender's own included; a socket
\* that already queues MaxQueued datagrams drops it
Deliver(socks, sent) ==
    IF sent = <<>> THEN socks
    ELSE [h \in Hosts |->
             IF /\ g_disc_running[h]
                /\ sent[1].dest \in {BROADCAST, h}
                /\ Len(socks[h]) < MaxQueued
             THEN Append(socks[h], sent[1].pkt)
             ELSE socks[h]]

\* the guest thread of the instance under study is in XNetQosLookup's
\* collection phase
Collecting == net_pc["guest"].op = "XNetQosLookup"

\* the datagram at the head of its discovery socket was queued before the
\* collection began
Stale == net_pc["guest"].stale > 0

\* DiscoveryThreadFunc's reply to a Probe: SendBeacon to from.sin_addr
ProbeReply(h, pkt) == SendBeacon(h, pkt.from)

\* One iteration of DiscoveryThreadFunc's loop on instance h in which select
\* reports a datagram: recvfrom takes it; a Probe that is not the instance's
\* own is answered, a Beacon that is not its own goes to AddOrUpdatePeer.
\* While the guest thread collects, what the discovery thread takes off the
\* socket is noted in the collector's `taken`, unless it is one of the
\* `stale` datagrams that were queued before the collection began.
DiscoveryReceives(h) ==
    /\ g_disc_running[h]
    /\ disc_socket[h] # <<>>
    /\ h = LocalHost => net_pc["disc"].at = "idle" /\ CanLock
    /\ LET pkt == Head(disc_socket[h])
           rest == [disc_socket EXCEPT ![h] = Tail(@)]
           foreign == pkt.ina # h
           sent == IF foreign /\ pkt.type = "probe" THEN ProbeReply(h, pkt) ELSE <<>>
       IN /\ disc_socket' = Deliver(rest, sent)
          /\ g_peers' =
                IF foreign /\ pkt.type = "beacon"
                THEN [g_peers EXCEPT ![h] = AddOrUpdatePeer(@, pkt.ina, pkt.tag, pkt.tag)]
                ELSE g_peers
          /\ net_pc' =
                IF h = LocalHost /\ Collecting
                THEN [net_pc EXCEPT !["guest"].taken = IF Stale THEN @ ELSE @ \cup {pkt},
                                    !["guest"].stale = IF Stale THEN @ - 1 ELSE @]
                ELSE net_pc
          /\ net_last' = [op |-> "DiscoveryReceives", thread |-> "disc", host |-> h,
                          pkt |-> pkt, sent |-> sent]
    /\ UNCHANGED <<g_peers_mutex, g_qos_active, g_disc_running, connect_called>>

\* every open discovery socket has room for one more datagram
RoomEverywhere ==
    \A h \in Hosts : g_disc_running[h] => Len(disc_socket[h]) < MaxQueued

\* The end of an iteration when 500 ms have passed since the last beacon:
\* SendBeacon to the broadcast address. The interval is long enough for the
\* receivers to have room for the beacon: none is lost.
BeaconTimer(h) ==
    /\ g_disc_running[h]
    /\ h = LocalHost => net_pc["disc"].at = "idle"
    /\ RoomEverywhere
    /\ LET sent == SendBeacon(h, BROADCAST)
       IN /\ disc_socket' = Deliver(disc_socket, sent)
          /\ net_last' = [op |-> "BeaconTimer", thread |-> "disc", host |-> h,
                          sent |-> sent]
    /\ UNCHANGED <<g_peers, g_peers_mutex, g_qos_active, g_disc_running, net_pc,
                   connect_called>>

\* __imp__NetDll_XNetQosListen on instance h: r8 = flags; bit 0 releases the
\* listener, bits 1 and 2 activate it
XNetQosListen(h, flags) ==
    /\ h = LocalHost => net_pc["guest"].at = "idle"
    /\ g_qos_active' =
          IF flags % 2 = 1 THEN [g_qos_active EXCEPT ![h] = FALSE]
          ELSE IF (flags \div 2) % 4 # 0 THEN [g_qos_active EXCEPT ![h] = TRUE]
          ELSE g_qos_active
    /\ net_last' = [op |-> "XNetQosListen", thread |-> "guest", host |-> h,
                    flags |-> flags, r3 |-> 0]
    /\ UNCHANGED <<g_peers, g_peers_mutex, g_disc_running, disc_socket, net_pc,
                   connect_called>>

\* the limit below which XNetQosLookup takes the caller's timeout, and the
\* timeout it takes otherwise
QOS_TIMEOUT_LIMIT == 500

QOS_DEFAULT_TIMEOUT == 200

\* int collect_timeout = (dwTimeout > 0 && dwTimeout < 500) ? (int)dwTimeout : 200
CollectTimeout(dwTimeout) ==
    IF dwTimeout > 0 /\ dwTimeout < QOS_TIMEOUT_LIMIT THEN dwTimeout
    ELSE QOS_DEFAULT_TIMEOUT

\* __imp__NetDll_XNetQosLookup up to the call of CollectBeaconResponses: the
\* Probe is sent and the collection starts; milliseconds are counted from
\* `start`
XNetQosLookup(dwTimeout) ==
    /\ net_pc["guest"].at = "idle"
    /\ g_disc_running[LocalHost]
    /\ disc_socket' = Deliver(disc_socket, SendProbe(LocalHost))
    /\ net_pc' = [net_pc EXCEPT !["guest"] =
                     [op |-> "XNetQosLookup", at |-> "select", dwTimeout |-> dwTimeout,
                      timeout_ms |-> CollectTimeout(dwTimeout), elapsed |-> 0,
                      responses |-> <<>>, taken |-> {}, discarded |-> {},
                      arrivals |-> 0, stale |-> Len(disc_socket[LocalHost])]]
    /\ UNCHANGED <<g_peers, g_peers_mutex, g_qos_active, g_disc_running, connect_called,
                   net_last>>

\* CollectBeaconResponses returns and XNetQosLookup builds its result from
\* the responses
CollectReturns ==
    /\ net_last' = [op |-> "XNetQosLookup", thread |-> "guest",
                    dwTimeout |-> net_pc["guest"].dwTimeout,
                    elapsed |-> net_pc["guest"].elapsed,
                    responses |-> net_pc["guest"].responses,
                    taken |-> net_pc["guest"].taken,
                    discarded |-> net_pc["guest"].discarded, r3 |-> 0]
    /\ net_pc' = [net_pc EXCEPT !["guest"] = IdlePC]
    /\ UNCHANGED <<g_peers, g_peers_mutex, g_qos_active, g_disc_running, disc_socket,
                   connect_called>>

\* The head of CollectBeaconResponses' loop: break when no time remains;
\* otherwise select, which reports a queued datagram at once. (With nothing
\* queued it waits: time passes up to the deadline, or a datagram arrives.)
CollectSelect ==
    /\ Collecting
    /\ net_pc["guest"].at = "select"
    /\ IF net_pc["guest"].timeout_ms - net_pc["guest"].elapsed <= 0
       THEN CollectReturns
       ELSE /\ disc_socket[LocalHost] # <<>>
            /\ net_pc' = [net_pc EXCEPT !["guest"].at = "recvfrom"]
            /\ UNCHANGED <<g_peers, g_peers_mutex, g_qos_active, g_disc_running,
                           disc_socket, connect_called, net_last>>

\* recvfrom in CollectBeaconResponses: it takes the datagram at the head of
\* the queue (and blocks while there is none); anything but a Beacon of
\* another host is dropped (and noted in `discarded` unless stale), a Beacon
\* of another host goes to AddOrUpdatePeer and to the responses
CollectRecvfrom ==
    /\ Collecting
    /\ net_pc["guest"].at = "recvfrom"
    /\ disc_socket[LocalHost] # <<>>
    /\ CanLock
    /\ LET pkt == Head(disc_socket[LocalHost])
           wanted == pkt.type = "beacon" /\ pkt.ina # LocalHost
       IN /\ disc_socket' = [disc_socket EXCEPT ![LocalHost] = Tail(@)]
          /\ g_peers' =
                IF wanted
                THEN [g_peers EXCEPT ![LocalHost] =
                         AddOrUpdatePeer(@, pkt.ina, pkt.tag, pkt.tag)]
                ELSE g_peers
          /\ net_pc' =
                [net_pc EXCEPT !["guest"].at = "select",
                               !["guest"].responses = IF wanted THEN Append(@, pkt) ELSE @,
                               !["guest"].discarded =
                                   IF wanted \/ Stale THEN @ ELSE @ \cup {pkt},
                               !["guest"].stale = IF Stale THEN @ - 1 ELSE @]
    /\ UNCHANGED <<g_peers_mutex, g_qos_active, g_disc_running, connect_called, net_last>>

\* the instants of the steady clock, in milliseconds since the collection
\* started, at which the collector is looked at
Instants == {1, 200, 300, 400}

\* Time passes while the collector waits: in select with nothing queued, up
\* to the deadline; in recvfrom with nothing queued, without a deadline.
TimePasses(now) ==
    /\ Collecting
    /\ disc_socket[LocalHost] = <<>>
    /\ now > net_pc["guest"].elapsed
    /\ net_pc["guest"].at = "select" => now <= net_pc["guest"].timeout_ms
    /\ net_pc' = [net_pc EXCEPT !["guest"].elapsed = now]
    /\ UNCHANGED <<g_peers, g_peers_mutex, g_qos_active, g_disc_running, disc_socket,
                   connect_called, net_last>>

\* a datagram of a remote host reaches the discovery socket of the instance
\* under study
RemoteSends(pkt) ==
    /\ g_disc_running[LocalHost]
    /\ Len(disc_socket[LocalHost]) < MaxQueued
    /\ Collecting => net_pc["guest"].arrivals < MaxArrivals
    /\ disc_socket' = [disc_socket EXCEPT ![LocalHost] = Append(@, pkt)]
    /\ net_pc' = IF Collecting THEN [net_pc EXCEPT !["guest"].arrivals = @ + 1]
                 ELSE net_pc
    /\ net_last' = [op |-> "RemoteSends", thread |-> "-", pkt |-> pkt]
    /\ UNCHANGED <<g_peers, g_peers_mutex, g_qos_active, g_disc_running, connect_called>>

\* ------------------------------------------------------------------------
\* LAN networking: overlapped receives
\* ------------------------------------------------------------------------
\* the socket handles the guest uses, its completion tokens (addresses of
\* OVERLAPPED structures; 0 is no token), its receive buffers, and the
\* payloads that arrive
SocketHandles == {1, 2}

Tokens == {1, 2}

NO_OVERLAPPED == 0

Buffers == {1, 2}

Payloads == {7}

\* the status words at overlapped + 0
STATUS_COMPLETE == 0

STATUS_PENDING == 259

SOCKET_ERROR == 0 - 1

\* no entry of g_pending_recvs for a token
NoPending == [socket_handle |-> 0, buf_guest |-> 0]

PendingRecv(socket_handle, buf_guest) ==
    [socket_handle |-> socket_handle, buf_guest |-> buf_guest]

NoRecvCall ==
    [op |-> "-", socket |-> 0, overlapped |-> 0, r3 |-> 0, buf |-> 0, data |-> 0]

\* a call, its result, and the buffer it filled with which payload (0, 0 when
\* it delivered nothing)
RecvCall(op, socket, overlapped, r3, buf, data) ==
    [op |-> op, socket |-> socket, overlapped |-> overlapped, r3 |-> r3,
     buf |-> buf, data |-> data]

\* no receive is pending, every socket handle resolves, nothing is queued,
\* and the guest's OVERLAPPED structures are zeroed memory
InitRecv ==
    /\ g_pending_recvs = [t \in Tokens |-> NoPending]
    /\ xsockets = SocketHandles
    /\ sock_queue = [h \in SocketHandles |-> <<>>]
    /\ overlapped_status = [t \in Tokens |-> STATUS_COMPLETE]
    /\ recv_last = NoRecvCall
    /\ recv_delivered = {}

\* __imp__NetDll_WSARecvFrom: r4 = socket, the first buffer, and the
\* OVERLAPPED pointer from the stack
WSARecvFrom(socket_handle, buf_guest, overlapped) ==
    IF socket_handle \notin xsockets
    THEN /\ recv_last' = RecvCall("WSARecvFrom", socket_handle, overlapped, SOCKET_ERROR, 0, 0)
         /\ UNCHANGED <<g_pending_recvs, xsockets, sock_queue, overlapped_status>>
    ELSE IF sock_queue[socket_handle] # <<>>
    THEN /\ sock_queue' = [sock_queue EXCEPT ![socket_handle] = Tail(@)]
         /\ overlapped_status' =
               IF overlapped # NO_OVERLAPPED
               THEN [overlapped_status EXCEPT ![overlapped] = STATUS_COMPLETE]
               ELSE overlapped_status
         /\ recv_last' = RecvCall("WSARecvFrom", socket_handle, overlapped, 0,
                                  buf_guest, Head(sock_queue[socket_handle]))
         /\ UNCHANGED <<g_pending_recvs, xsockets>>
    ELSE /\ g_pending_recvs' =
               IF overlapped # NO_OVERLAPPED
               THEN [g_pending_recvs EXCEPT ![overlapped] =
                        PendingRecv(socket_handle, buf_guest)]
               ELSE g_pending_recvs
         /\ overlapped_status' =
               IF overlapped # NO_OVERLAPPED
               THEN [overlapped_status EXCEPT ![overlapped] = STATUS_PENDING]
               ELSE overlapped_status
         /\ recv_last' = RecvCall("WSARecvFrom", socket_handle, overlapped, SOCKET_ERROR, 0, 0)
         /\ UNCHANGED <<xsockets, sock_queue>>

\* __imp__NetDll_WSAGetOverlappedResult: r5 = the OVERLAPPED pointer
WSAGetOverlappedResult(overlapped) ==
    IF overlapped = NO_OVERLAPPED \/ g_pending_recvs[overlapped] = NoPending
    THEN /\ recv_last' =
               RecvCall("WSAGetOverlappedResult", 0, overlapped,
                        IF /\ overlapped # NO_OVERLAPPED
                           /\ overlapped_status[overlapped] = STATUS_COMPLETE
                        THEN 1 ELSE 0,
                        0, 0)
         /\ UNCHANGED <<g_pending_recvs, xsockets, sock_queue, overlapped_status>>
    ELSE LET pr == g_pending_recvs[overlapped]
         IN IF pr.socket_handle \notin xsockets
            THEN /\ g_pending_recvs' = [g_pending_recvs EXCEPT ![overlapped] = NoPending]
                 /\ recv_last' = RecvCall("WSAGetOverlappedResult", pr.socket_handle,
                                          overlapped, 0, 0, 0)
                 /\ UNCHANGED <<xsockets, sock_queue, overlapped_status>>
            ELSE IF sock_queue[pr.socket_handle] # <<>>
            THEN /\ sock_queue' = [sock_queue EXCEPT ![pr.socket_handle] = Tail(@)]
                 /\ overlapped_status' =
                       [overlapped_status EXCEPT ![overlapped] = STATUS_COMPLETE]
                 /\ g_pending_recvs' = [g_pending_recvs EXCEPT ![overlapped] = NoPending]
                 /\ recv_last' = RecvCall("WSAGetOverlappedResult", pr.socket_handle,
                                          overlapped, 1, pr.buf_guest,
                                          Head(sock_queue[pr.socket_handle]))
                 /\ UNCHANGED xsockets
            ELSE /\ recv_last' = RecvCall("WSAGetOverlappedResult", pr.socket_handle,
                                          overlapped, 0, 0, 0)
                 /\ UNCHANGED <<g_pending_recvs, xsockets, sock_queue, overlapped_status>>

\* a datagram reaches an open socket
DatagramArrives(socket_handle, data) ==
    /\ socket_handle \in xsockets
    /\ Len(sock_queue[socket_handle]) < MaxQueued
    /\ sock_queue' = [sock_queue EXCEPT ![socket_handle] = Append(@, data)]
    /\ UNCHANGED <<g_pending_recvs, xsockets, overlapped_status, recv_last>>

\* the guest closes a socket: the object table no longer resolves its
\* handle, and what the socket had queued is gone
SocketCloses(socket_handle) ==
    /\ socket_handle \in xsockets
    /\ xsockets' = xsockets \ {socket_handle}
    /\ sock_queue' = [sock_queue EXCEPT ![socket_handle] = <<>>]
    /\ UNCHANGED <<g_pending_recvs, overlapped_status, recv_last>>

\* the guest creates a socket and the object table hands out a handle that
\* is free
SocketOpens(socket_handle) ==
    /\ socket_handle \notin xsockets
    /\ xsockets' = xsockets \cup {socket_handle}
    /\ UNCHANGED <<g_pending_recvs, sock_queue, overlapped_status, recv_last>>

\* ------------------------------------------------------------------------
\* LAN networking: the length-prefixed payload of a Beacon
\* ------------------------------------------------------------------------
DISC_HEADER_LEN == 46

DISC_MAX_QOS == 512

\* sizeof(buf) in CollectBeaconResponses: the most bytes recvfrom returns
RECV_BUF_LEN == 2048

\* the bytes of a Beacon before its payload: the header and the 2-byte prefix
BeaconFixedLen == DISC_HEADER_LEN + 2

\* a datagram as sent or received: n bytes in all, `prefix` the big-endian
\* value of bytes 46 and 47; what CollectBeaconResponses recorded as
\* qos_data_len (NoValue when it dropped the datagram) and the payload
\* bytes it copied
WireCall(op, n, prefix, qos_data_len, copied) ==
    [op |-> op, n |-> n, prefix |-> prefix, qos_data_len |-> qos_data_len,
     copied |-> copied]

NoWire == WireCall("-", 0, 0, NoValue, 0)

InitWire ==
    /\ g_qos_data_len = 0
    /\ wire_last = NoWire

\* XNetQosListen's treatment of r5 = data_ptr and r6 = data_len: stored,
\* clamped to DISC_MAX_QOS, when the call activates the listener and names
\* a non-empty payload
ListenData(flags, data_ptr, data_len) ==
    IF flags % 2 = 0 /\ (flags \div 2) % 4 # 0 /\ data_ptr # 0 /\ data_len > 0
    THEN IF data_len > DISC_MAX_QOS THEN DISC_MAX_QOS ELSE data_len
    ELSE g_qos_data_len

\* __imp__NetDll_XNetQosListen of the instance under study with its payload
\* arguments
XNetQosListenData(flags, data_ptr, data_len) ==
    /\ XNetQosListen(LocalHost, flags)
    /\ g_qos_data_len' = ListenData(flags, data_ptr, data_len)
    /\ wire_last' = WireCall("XNetQosListen", 0, 0, NoValue, 0)

\* SendBeacon with the listener active: the prefix is data_len, and
\* total = 48 + dlen bytes go out
SendBeaconWire ==
    /\ g_qos_active[LocalHost]
    /\ wire_last' = WireCall("SendBeacon", BeaconFixedLen + g_qos_data_len,
                             g_qos_data_len, NoValue, 0)
    /\ UNCHANGED <<g_qos_data_len, netVars>>

\* One iteration of CollectBeaconResponses' loop on a Beacon of another
\* host that arrived with n bytes and `prefix` in bytes 46 and 47
CollectBeaconWire(n, prefix) ==
    /\ wire_last' =
          IF n < BeaconFixedLen THEN WireCall("CollectBeaconResponses", n, prefix, NoValue, 0)
          ELSE LET qos_data_len == IF prefix > DISC_MAX_QOS THEN DISC_MAX_QOS ELSE prefix
               IN WireCall("CollectBeaconResponses", n, prefix, qos_data_len,
                           IF qos_data_len > 0 /\ n >= 48 + qos_data_len
                           THEN qos_data_len ELSE 0)
    /\ UNCHANGED <<g_qos_data_len, netVars>>

\* ------------------------------------------------------------------------
\* LAN networking: the locks of the shared structures
\* ------------------------------------------------------------------------
\* the three guarded structures of net.cpp, and the lock of each
Guarded == {"g_peers", "g_qos_listener", "g_pending_recvs"}

LockOf(s) ==
    CASE s = "g_peers" -> "g_peers_mutex"
      [] s = "g_qos_listener" -> "g_qos_mutex"
      [] s = "g_pending_recvs" -> "g_pending_mutex"

Locks == {LockOf(s) : s \in Guarded}

\* the host threads that run networking code: two threads of guest code and
\* the discovery thread
LockThreads == {"guest1", "guest2", "disc"}

\* the steps of a function that matter here: taking a lock, a read or a
\* write of a guarded structure, the end of the lock's scope
LockOp(m, mode) == [k |-> "lock", m |-> m, mode |-> mode, s |-> "-"]

UnlockOp(m) == [k |-> "unlock", m |-> m, mode |-> "-", s |-> "-"]

ReadOp(s) == [k |-> "read", m |-> "-", mode |-> "-", s |-> s]

WriteOp(s) == [k |-> "write", m |-> "-", mode |-> "-", s |-> s]

\* the variant that takes no lock
Locked_Unguarded(m, mode, body) == body

\* { std::unique_lock / std::shared_lock / std::lock_guard lock(m); body }
Locked(m, mode, body) == <<LockOp(m, mode)>> \o body \o <<UnlockOp(m)>>

\* The networking functions as the sequences of such steps they make, in
\* source order (net.cpp):
\*   AddOrUpdatePeer 164-178; SendBeacon 183-203; XNetXnAddrToInAddr 453-480
\*   (calls AddOrUpdatePeer); XNetInAddrToXnAddr 483-529; XNetConnect
\*   532-554; XNetGetConnectStatus 557-573; XNetUnregisterInAddr 576-593;
\*   XNetQosListen 614-645; XNetQosLookup 650-785 (CollectBeaconResponses
\*   calls AddOrUpdatePeer for a Beacon; with no response the peer table
\*   is searched); WSARecvFrom 805-911 (the map is touched only when the
\*   receive is registered); WSAGetOverlappedResult 915-1012; NetShutdown
\*   402-434; the discovery thread's handling of a Probe (SendBeacon), of a
\*   Beacon (AddOrUpdatePeer) and of its timer (SendBeacon), 304-338.
LockProgram(fn) ==
    CASE fn \in {"AddOrUpdatePeer", "XNetXnAddrToInAddr", "XNetQosLookup_beacon",
                 "Discovery_beacon"} ->
            Locked("g_peers_mutex", "exclusive", <<ReadOp("g_peers"), WriteOp("g_peers")>>)
      [] fn \in {"SendBeacon", "Discovery_probe", "Discovery_timer"} ->
            Locked("g_qos_mutex", "exclusive", <<ReadOp("g_qos_listener")>>)
      [] fn \in {"XNetInAddrToXnAddr", "XNetGetConnectStatus", "XNetQosLookup_empty"} ->
            Locked("g_peers_mutex", "shared", <<ReadOp("g_peers")>>)
      [] fn \in {"XNetConnect", "XNetUnregisterInAddr"} ->
            Locked("g_peers_mutex", "exclusive", <<ReadOp("g_peers"), WriteOp("g_peers")>>)
      [] fn = "XNetQosListen" ->
            Locked("g_qos_mutex", "exclusive",
                   <<WriteOp("g_qos_listener"), ReadOp("g_qos_listener")>>)
      [] fn = "WSARecvFrom" ->
            Locked("g_pending_mutex", "exclusive", <<WriteOp("g_pending_recvs")>>)
      [] fn = "WSAGetOverlappedResult" ->
            Locked("g_pending_mutex", "exclusive",
                   <<ReadOp("g_pending_recvs"), WriteOp("g_pending_recvs")>>)
      [] fn = "NetShutdown" ->
            Locked("g_peers_mutex", "exclusive", <<WriteOp("g_peers")>>)
            \o Locked("g_qos_mutex", "exclusive", <<WriteOp("g_qos_listener")>>)
            \o Locked("g_pending_mutex", "exclusive", <<WriteOp("g_pending_recvs")>>)

\* what the discovery thread runs, and what guest code calls
DiscoveryFunctions == {"Discovery_probe", "Discovery_beacon", "Discovery_timer"}

GuestFunctions ==
    {"XNetXnAddrToInAddr", "XNetInAddrToXnAddr", "XNetConnect", "XNetGetConnectStatus",
     "XNetUnregisterInAddr", "XNetQosListen", "XNetQosLookup_beacon",
     "XNetQosLookup_empty", "WSARecvFrom", "WSAGetOverlappedResult", "NetShutdown"}

\* a holder of a lock
Holder(t, mode) == [thread |-> t, mode |-> mode]

\* the locks thread t holds
HeldBy(t) == {m \in Locks : \E h \in lock_holders[m] : h.thread = t}

NoAccess == [thread |-> "-", k |-> "-", s |-> "-", held |-> {}]

InitLock ==
    /\ lock_holders = [m \in Locks |-> {}]
    /\ lock_pc = [t \in LockThreads |-> <<>>]
    /\ lock_last = NoAccess

\* thread t can take lock m in `mode`: nobody holds it, or everybody who
\* holds it holds it shared and t asks for shared; a thread that already
\* holds m waits for itself
CanTake(t, m, mode) ==
    \/ lock_holders[m] = {}
    \/ /\ mode = "shared"
       /\ \A h \in lock_holders[m] : h.mode = "shared" /\ h.thread # t

\* thread t enters networking function fn
LockCall(t, fn) ==
    /\ lock_pc[t] = <<>>
    /\ lock_pc' = [lock_pc EXCEPT ![t] = LockProgram(fn)]
    /\ UNCHANGED <<lock_holders, lock_last>>

\* thread t is inside a function and its next step is not a lock that is
\* taken
CanStep(t) ==
    /\ lock_pc[t] # <<>>
    /\ Head(lock_pc[t]).k = "lock" => CanTake(t, Head(lock_pc[t]).m, Head(lock_pc[t]).mode)

\* thread t makes the next step of its function
LockStep(t) ==
    /\ CanStep(t)
    /\ LET op == Head(lock_pc[t])
       IN /\ lock_pc' = [lock_pc EXCEPT ![t] = Tail(@)]
          /\ lock_holders' =
                CASE op.k = "lock" ->
                        [lock_holders EXCEPT ![op.m] = @ \cup {Holder(t, op.mode)}]
                  [] op.k = "unlock" ->
                        [lock_holders EXCEPT ![op.m] = {h \in @ : h.thread # t}]
                  [] OTHER -> lock_holders
          /\ lock_last' =
                IF op.k \in {"read", "write"}
                THEN [thread |-> t, k |-> op.k, s |-> op.s,
                      held |-> {lm \in Locks \X {"shared", "exclusive"} :
                                   Holder(t, lm[2]) \in lock_holders[lm[1]]}]
                ELSE lock_last

\* ------------------------------------------------------------------------
\* LAN networking: start and stop of the discovery thread
\* ------------------------------------------------------------------------
\* g_disc_socket holds INVALID_SOCKET, or the number of datagrams the open
\* socket has queued
INVALID_SOCKET == 0 - 1

NoTables == [peers |-> FALSE, listener |-> FALSE, pending |-> FALSE]

NoStop == [op |-> "-", outcome |-> "-"]

\* before main calls NetInit
InitStop ==
    /\ g_disc_thread = "none"
    /\ stop_running = FALSE
    /\ g_disc_socket = INVALID_SOCKET
    /\ stop_pc = "idle"
    /\ stop_tables = NoTables
    /\ stop_last = NoStop

\* sendto to an address that reaches the own socket: queued unless the
\* socket is closed or full
Loopback(sock) == IF sock # INVALID_SOCKET /\ sock < MaxQueued THEN sock + 1 ELSE sock

\* NetInit: socket() fails, or bind fails and the socket is closed again, or
\* the running flag is set and the thread started
NetInitReturns(outcome) ==
    /\ stop_pc = "idle"
    /\ g_disc_thread = "none"
    /\ g_disc_socket = INVALID_SOCKET
    /\ IF outcome = "ok"
       THEN /\ g_disc_socket' = 0
            /\ stop_running' = TRUE
            /\ g_disc_thread' = "loop"
       ELSE UNCHANGED <<g_disc_socket, stop_running, g_disc_thread>>
    /\ stop_last' = [op |-> "NetInit", outcome |-> outcome]
    /\ UNCHANGED <<stop_pc, stop_tables>>

\* DiscoveryThreadFunc: while (g_disc_running.load())
DiscLoop ==
    /\ g_disc_thread = "loop"
    /\ g_disc_thread' = IF stop_running THEN "select" ELSE "exited"
    /\ UNCHANGED <<stop_running, g_disc_socket, stop_pc, stop_tables, stop_last>>

\* select with its 100 ms timeout: sel > 0 when a datagram is queued, 0 when
\* the timeout passes
DiscSelect ==
    /\ g_disc_thread = "select"
    /\ g_disc_thread' = IF g_disc_socket > 0 THEN "recvfrom" ELSE "timer"
    /\ UNCHANGED <<stop_running, g_disc_socket, stop_pc, stop_tables, stop_last>>

\* recvfrom on the blocking socket: returns when a datagram is queued; a
\* Beacon of another host goes to the peer table
DiscRecvfrom(beacon) ==
    /\ g_disc_thread = "recvfrom"
    /\ g_disc_socket > 0
    /\ g_disc_socket' = g_disc_socket - 1
    /\ stop_tables' = [stop_tables EXCEPT !.peers = @ \/ beacon]
    /\ g_disc_thread' = "timer"
    /\ UNCHANGED <<stop_running, stop_pc, stop_last>>

\* the end of an iteration: when 500 ms have passed and the listener is
\* active, a Beacon is broadcast, which the own socket receives too
DiscTimer(due) ==
    /\ g_disc_thread = "timer"
    /\ g_disc_socket' =
          IF due /\ stop_tables.listener THEN Loopback(g_disc_socket) ELSE g_disc_socket
    /\ g_disc_thread' = "loop"
    /\ UNCHANGED <<stop_running, stop_pc, stop_tables, stop_last>>

\* guest calls between NetInit and NetShutdown: XNetQosListen switches the
\* listener, WSARecvFrom registers a pending receive
StopListen(on) ==
    /\ stop_pc = "idle"
    /\ stop_tables' = [stop_tables EXCEPT !.listener = on]
    /\ stop_last' = [op |-> "XNetQosListen", outcome |-> "returned"]
    /\ UNCHANGED <<g_disc_thread, stop_running, g_disc_socket, stop_pc>>

StopPending ==
    /\ stop_pc = "idle"
    /\ stop_tables' = [stop_tables EXCEPT !.pending = TRUE]
    /\ stop_last' = [op |-> "WSARecvFrom", outcome |-> "pending"]
    /\ UNCHANGED <<g_disc_thread, stop_running, g_disc_socket, stop_pc>>

\* XNetQosLookup: with a valid socket the Probe is broadcast (the own socket
\* receives it too) and CollectBeaconResponses starts
StopLookup ==
    /\ stop_pc = "idle"
    /\ g_disc_socket # INVALID_SOCKET
    /\ g_disc_socket' = Loopback(g_disc_socket)
    /\ stop_pc' = "collect_select"
    /\ UNCHANGED <<g_disc_thread, stop_running, stop_tables, stop_last>>

\* CollectBeaconResponses: break when no time remains or select times out,
\* else recvfrom
StopCollectSelect(expired) ==
    /\ stop_pc = "collect_select"
    /\ stop_pc' = IF ~expired /\ g_disc_socket > 0 THEN "collect_recvfrom" ELSE "idle"
    /\ stop_last' = IF stop_pc' = "idle"
                    THEN [op |-> "XNetQosLookup", outcome |-> "returned"]
                    ELSE stop_last
    /\ UNCHANGED <<g_disc_thread, stop_running, g_disc_socket, stop_tables>>

StopCollectRecvfrom(beacon) ==
    /\ stop_pc = "collect_recvfrom"
    /\ g_disc_socket > 0
    /\ g_disc_socket' = g_disc_socket - 1
    /\ stop_tables' = [stop_tables EXCEPT !.peers = @ \/ beacon]
    /\ stop_pc' = "collect_select"
    /\ UNCHANGED <<g_disc_thread, stop_running, stop_last>>

\* a datagram of another host reaches the open socket
StopArrives ==
    /\ g_disc_socket # INVALID_SOCKET
    /\ g_disc_socket < MaxQueued
    /\ g_disc_socket' = g_disc_socket + 1
    /\ UNCHANGED <<g_disc_thread, stop_running, stop_pc, stop_tables, stop_last>>

\* NetShutdown up to the join: the flag is cleared; join() is called when
\* the thread is joinable
NetShutdown_Begin ==
    /\ stop_pc = "idle"
    /\ stop_running' = FALSE
    /\ stop_pc' = IF g_disc_thread # "none" THEN "join" ELSE "finish"
    /\ UNCHANGED <<g_disc_thread, g_disc_socket, stop_tables, stop_last>>

\* g_disc_thread.join() returns once DiscoveryThreadFunc has returned
NetShutdown_Join ==
    /\ stop_pc = "join"
    /\ g_disc_thread = "exited"
    /\ g_disc_thread' = "none"
    /\ stop_pc' = "finish"
    /\ UNCHANGED <<stop_running, g_disc_socket, stop_tables, stop_last>>

\* the rest of NetShutdown: the socket is closed, the three structures are
\* cleared, and it returns
NetShutdown_Finish ==
    /\ stop_pc = "finish"
    /\ g_disc_socket' = INVALID_SOCKET
    /\ stop_tables' = NoTables
    /\ stop_pc' = "idle"
    /\ stop_last' = [op |-> "NetShutdown", outcome |-> "returned"]
    /\ UNCHANGED <<g_disc_thread, stop_running>>

\* ------------------------------------------------------------------------
\* Specifications
\* ------------------------------------------------------------------------
NoHeapCall ==
    [api |-> "-", req |-> ZERO32, ok |-> TRUE, r3 |-> ZERO32, out |-> NoAddr,
     zeroed |-> NoAddr, before |-> HEAP_START]

InitHeap ==
    /\ g_heap_next = HEAP_START
    /\ s_cmd_buf = ZERO32
    /\ allocs = <<>>
    /\ heap_last = NoHeapCall
    /\ heap_all_fit = TRUE
    /\ heap_failed = {}
    /\ heap_calls = 0

\* the state when main() calls _xstart: no descriptor in use, the main thread
\* converted to a fiber and executing guest code
InitSched ==
    /\ g_pending_threads = [i \in Slots |-> PendingThread]
    /\ g_pending_thread_count = 0
    /\ g_next_handle = FIRST_HANDLE
    /\ g_main_fiber = TRUE
    /\ g_current_thread = NULL_THREAD
    /\ cur_fiber = MAIN
    /\ fiber_pc = [f \in Fibers |-> IF f = MAIN THEN GuestPC ELSE NoFiberPC]
    /\ crashed = FALSE
    /\ awaiting_resume = [i \in Slots |-> FALSE]
    /\ last = NoCall

InitIcall ==
    /\ g_null_icall_count = 0
    /\ _oor_count = [c \in CallSites |-> 0]
    /\ icall_aborted = FALSE
    /\ icall_last = NoIcall

NoPath == [prefix |-> <<>>, sep |-> <<>>, rest |-> <<>>, out |-> <<>>]

InitFile ==
    /\ path_last = NoPath
    /\ g_file_handles = [i \in {} |-> HandleEntry]
    /\ dir_returned = [i \in {} |-> <<>>]
    /\ file_last = NoFileCall
    /\ file_closed = {}
    /\ host_fps = 0

NoObject == [api |-> "-", id |-> NoValue, r3 |-> 0]

NoStatus == [made |-> FALSE, status |-> <<0, 0>>, r3 |-> 0]

\* the instances of `running` have completed NetInit: their discovery
\* thread runs; no instance knows a peer, nobody listens, no datagram is
\* queued
InitNetOf(running) ==
    /\ g_peers = [h \in Hosts |-> <<>>]
    /\ g_peers_mutex = "none"
    /\ g_qos_active = [h \in Hosts |-> FALSE]
    /\ g_disc_running = [h \in Hosts |-> h \in running]
    /\ disc_socket = [h \in Hosts |-> <<>>]
    /\ net_pc = [t \in Threads |-> IdlePC]
    /\ connect_called = {}
    /\ net_last = NoNetCall

InitNet == InitNetOf(Hosts)

InitStatus == status_last = NoStatus

InitObj == obj_last = NoObject

Init ==
    /\ InitSched
    /\ host_fibers \in {HostFibersScarce, MAX_PENDING_THREADS}
    /\ InitHeap
    /\ InitIcall
    /\ InitFile
    /\ InitObj
    /\ InitStatus
    /\ InitNet
    /\ InitRecv
    /\ InitWire
    /\ InitLock
    /\ InitStop

\* the handles a guest may pass to a resume call: every handle handed out so
\* far and the one that would be handed out next
GuestHandles == FIRST_HANDLE .. g_next_handle

\* Steps of the fiber that is executing. Guest code picks the call and its
\* arguments; the allocator is left alone.
CreateStep ==
    /\ g_next_handle < FIRST_HANDLE + MaxHandles
    /\ \E handle_ptr \in BOOLEAN, start_routine \in GuestRoutines, suspended \in {0, 1} :
          ExCreateThread(cur_fiber, handle_ptr, start_routine, suspended)
    /\ UNCHANGED nonSchedVars

NtResumeStep ==
    /\ \E h \in GuestHandles, prev_count_ptr \in BOOLEAN :
          NtResumeThread(cur_fiber, h, prev_count_ptr)
    /\ UNCHANGED nonSchedVars

KeResumeStep ==
    /\ \E h \in GuestHandles : KeResumeThread(cur_fiber, h)
    /\ UNCHANGED nonSchedVars

BlockingStep == BlockingCall(cur_fiber) /\ UNCHANGED nonSchedVars

TerminateStep == ExTerminateThread(cur_fiber) /\ UNCHANGED nonSchedVars

VdSwapStep == VdSwap(cur_fiber) /\ UNCHANGED nonSchedVars

VdSwapLoopStep == VdSwapLoop(cur_fiber) /\ UNCHANGED nonSchedVars

FiberEntryStep == FiberEntry(cur_fiber) /\ UNCHANGED nonSchedVars

ReturnStep == StartRoutineReturns(cur_fiber) /\ UNCHANGED nonSchedVars

ResumeFromYieldStep == ResumeFromYield(cur_fiber) /\ UNCHANGED nonSchedVars

ResumeFromGrantStep == ResumeFromGrant(cur_fiber) /\ UNCHANGED nonSchedVars

Next ==
    \/ CreateStep
    \/ NtResumeStep
    \/ KeResumeStep
    \/ BlockingStep
    \/ TerminateStep
    \/ VdSwapStep
    \/ VdSwapLoopStep
    \/ FiberEntryStep
    \/ ReturnStep
    \/ ResumeFromYieldStep
    \/ ResumeFromGrantStep

Spec == Init /\ [][Next]_vars

\* The descriptor pool driven to its capacity: the main context creates
\* threads, suspended or not, whose start routine returns at once; the host
\* has fibers for all of them.
InitPool ==
    /\ InitSched
    /\ host_fibers = MAX_PENDING_THREADS
    /\ InitHeap
    /\ InitIcall
    /\ InitFile
    /\ InitObj
    /\ InitStatus
    /\ InitNet
    /\ InitRecv
    /\ InitWire
    /\ InitLock
    /\ InitStop

PoolCreateStep ==
    /\ cur_fiber = MAIN
    /\ g_next_handle <= FIRST_HANDLE + MAX_PENDING_THREADS
    /\ \E suspended \in {0, 1} : ExCreateThread(cur_fiber, TRUE, 1, suspended)
    /\ UNCHANGED nonSchedVars

NextPool ==
    \/ PoolCreateStep
    \/ FiberEntryStep
    \/ ReturnStep
    \/ ResumeFromGrantStep

SpecPool == InitPool /\ [][NextPool]_vars

\* The allocator on its own: the guest makes up to MaxHeapCalls calls.
HeapCall ==
    /\ heap_calls < MaxHeapCalls
    /\ heap_calls' = heap_calls + 1
    /\ UNCHANGED nonHeapVars

NtAllocateVirtualMemoryStep ==
    HeapCall /\ \E req \in RequestSizes : NtAllocateVirtualMemory(req)

MmAllocatePhysicalMemoryExStep ==
    HeapCall /\ \E req \in RequestSizes : MmAllocatePhysicalMemoryEx(req)

ExAllocatePoolWithTagStep ==
    HeapCall /\ \E req \in RequestSizes : ExAllocatePoolWithTag(req)

ExAllocatePoolTypeWithTagStep ==
    HeapCall /\ \E req \in RequestSizes : ExAllocatePoolTypeWithTag(req)

XamAllocStep == HeapCall /\ \E req \in RequestSizes : XamAlloc(req)

VdGetSystemCommandBufferStep == HeapCall /\ VdGetSystemCommandBuffer

XamGetExecutionIdStep == HeapCall /\ XamGetExecutionId

NextHeap ==
    \/ NtAllocateVirtualMemoryStep
    \/ MmAllocatePhysicalMemoryExStep
    \/ ExAllocatePoolWithTagStep
    \/ ExAllocatePoolTypeWithTagStep
    \/ XamAllocStep
    \/ VdGetSystemCommandBufferStep
    \/ XamGetExecutionIdStep

SpecHeap == InitPool /\ [][NextHeap]_vars

\* Indirect dispatches on their own: guest code dispatches from either call
\* site to any target, until the process aborts.
IcallStep ==
    /\ \E site \in CallSites, target \in IcallTargets, r3_in \in {0, 1} :
          /\ target = ZERO32 => g_null_icall_count < MaxNullIcalls
          /\ _oor_count[site] < MaxOorIcalls
          /\ PPC_CALL_INDIRECT_FUNC(site, target, r3_in)
    /\ UNCHANGED nonIcallVars

NextIcall == IcallStep

SpecIcall == InitPool /\ [][NextIcall]_vars

\* Path translation on its own. A guest path is put together from what
\* stands where the prefix would (every spelling of "game:" in upper and
\* lower case, and strings that are no prefix), an optional separator, and a
\* remainder of up to MaxRestLen characters.
PrefixSpellings ==
    {<<g, a, m, e, ":">> : g \in {"g", "G"}, a \in {"a", "A"}, m \in {"m", "M"},
                           e \in {"e", "E"}}

NoPrefixes == {<<>>, <<"g", "a", "m">>, <<"g", "a", "m", "e">>, <<"g", "a", "m", "f", ":">>,
               <<"d", ":">>}

PathSeparators == {<<>>, <<"\\">>, <<"/">>}

RestChars == {"a", "\\", "/"}

PathRests == UNION {[1 .. n -> RestChars] : n \in 0 .. MaxRestLen}

PathStep ==
    /\ \E prefix \in PrefixSpellings \cup NoPrefixes, sep \in PathSeparators,
          rest \in PathRests :
          path_last' = [prefix |-> prefix, sep |-> sep, rest |-> rest,
                        out |-> xbox_path_to_host(prefix \o sep \o rest)]
    /\ UNCHANGED <<g_file_handles, dir_returned, file_last, file_closed, host_fps>>
    /\ UNCHANGED nonFileVars

NextPath == PathStep

SpecPath == InitPool /\ [][NextPath]_vars

\* File I/O on its own: the guest opens, reads, enumerates and closes.
GamePath(rest) == GAME_LOWER \o <<"\\">> \o rest

\* game:\a, game:\a\, game:\d, game:\d\, game:\x and game:\x\
OpenNames ==
    {GamePath(<<"a">>), GamePath(<<"a", "\\">>), GamePath(<<"d">>),
     GamePath(<<"d", "\\">>), GamePath(<<"x">>), GamePath(<<"x", "\\">>)}

\* handle values the guest passes: the value below the file range, the
\* first slots, the value past the file range
HandleValues ==
    {FILE_HANDLE_BASE - 1, FILE_HANDLE_BASE, FILE_HANDLE_BASE + 1,
     FILE_HANDLE_BASE + MAX_FILE_HANDLES}

\* the handle values that designate an open entry of a type
OpenHandles(type) ==
    {h \in HandleValues : handle_lookup(h) # NoValue
                          /\ g_file_handles[handle_lookup(h)].type = type}

ReadLengths == {0, 2, 9}

\* information classes: standard, position, network-open, and one the call
\* does not support
InformationClasses == {5, 14, 34, 1}

\* buffer lengths for them: too short for any class, long enough for all
InformationLengths == {4, 56}

\* the handle values freed by the step and not handed out again
ClosedAfter ==
    (file_closed \cup {FILE_HANDLE_BASE + i : i \in DOMAIN g_file_handles})
    \ {FILE_HANDLE_BASE + i : i \in DOMAIN g_file_handles'}

\* byte offsets: in the file, past its end, and the negative "use the
\* current position" value
ReadOffsets == {0, 3, 8, 0 - 2}

\* buffer lengths: none, the header alone, header and a name of 1, room for
\* two records but not for the second one's padding, room for all
QueryLengths == {0, 64, 65, 139, 512}

\* the arguments of an open: an unusable name descriptor, or a name
OpenInputs ==
    {[desc |-> d, name |-> <<>>, iosb_addr |-> TRUE, fopen_ok |-> TRUE] :
        d \in NameDescriptors \ {"ok"}}
    \cup [desc : {"ok"}, name : OpenNames, iosb_addr : BOOLEAN, fopen_ok : BOOLEAN]

NtOpenFileStep ==
    /\ \E a \in OpenInputs : NtOpenFile(a.desc, a.name, a.iosb_addr, a.fopen_ok)
    /\ Cardinality(DOMAIN g_file_handles') <= MaxOpenFiles
    /\ file_closed' = ClosedAfter
    /\ UNCHANGED path_last
    /\ UNCHANGED nonFileVars

NtCreateFileStep ==
    /\ \E a \in OpenInputs : NtCreateFile(a.desc, a.name, a.iosb_addr, a.fopen_ok)
    /\ Cardinality(DOMAIN g_file_handles') <= MaxOpenFiles
    /\ file_closed' = ClosedAfter
    /\ UNCHANGED path_last
    /\ UNCHANGED nonFileVars

\* a read of an open file with every argument; of any other handle value with
\* a completion block, the longest length and an offset
NtReadFileStep ==
    /\ \/ \E handle_val \in OpenHandles("HANDLE_FILE"), iosb_addr \in BOOLEAN,
             length \in ReadLengths :
             \/ NtReadFile(handle_val, iosb_addr, length, FALSE, 0)
             \/ \E offset \in ReadOffsets :
                   NtReadFile(handle_val, iosb_addr, length, TRUE, offset)
       \/ \E handle_val \in HandleValues \ OpenHandles("HANDLE_FILE") :
             NtReadFile(handle_val, TRUE, 9, TRUE, 0)
    /\ file_closed' = ClosedAfter
    /\ UNCHANGED host_fps
    /\ UNCHANGED path_last
    /\ UNCHANGED nonFileVars

\* a query of an open directory with every argument; of any other handle
\* value with a completion block and the longest buffer
NtQueryDirectoryFileStep ==
    /\ \/ \E handle_val \in OpenHandles("HANDLE_DIRECTORY"), iosb_addr \in BOOLEAN,
             info_len \in QueryLengths :
             NtQueryDirectoryFile(handle_val, iosb_addr, info_len)
       \/ \E handle_val \in HandleValues \ OpenHandles("HANDLE_DIRECTORY") :
             NtQueryDirectoryFile(handle_val, TRUE, 512)
    /\ file_closed' = ClosedAfter
    /\ UNCHANGED host_fps
    /\ UNCHANGED path_last
    /\ UNCHANGED nonFileVars

\* an information query of an open handle with every class and length; of
\* any other handle value with the standard class
NtQueryInformationFileStep ==
    /\ \/ \E handle_val \in OpenHandles("HANDLE_FILE") \cup OpenHandles("HANDLE_DIRECTORY"),
             info_len \in InformationLengths, info_class \in InformationClasses :
             NtQueryInformationFile(handle_val, TRUE, info_len, info_class)
       \/ \E handle_val \in HandleValues :
             NtQueryInformationFile(handle_val, FALSE, 56, 5)
    /\ file_closed' = ClosedAfter
    /\ UNCHANGED host_fps
    /\ UNCHANGED path_last
    /\ UNCHANGED nonFileVars

NtCloseStep ==
    /\ \E handle_val \in HandleValues : NtClose(handle_val)
    /\ file_closed' = ClosedAfter
    /\ UNCHANGED path_last
    /\ UNCHANGED nonFileVars

NextFile ==
    \/ NtOpenFileStep
    \/ NtCreateFileStep
    \/ NtReadFileStep
    \/ NtQueryDirectoryFileStep
    \/ NtQueryInformationFileStep
    \/ NtCloseStep

SpecFile == InitPool /\ [][NextFile]_vars

\* The handle table driven to its capacity: the guest opens the file (and,
\* once DirOpensFrom slots are in use, the directory) until no slot is left,
\* and closes handles at both ends of the table.
SlotOpenNames == {GamePath(<<"a">>), GamePath(<<"d">>)}

SlotCloseHandles ==
    {FILE_HANDLE_BASE, FILE_HANDLE_BASE + 1, FILE_HANDLE_BASE + MAX_FILE_HANDLES - 1}

SlotOpenStep ==
    /\ \E name \in SlotOpenNames :
          /\ name = GamePath(<<"d">>) => Cardinality(DOMAIN g_file_handles) >= DirOpensFrom
          /\ NtOpenFile("ok", name, TRUE, TRUE)
    /\ file_closed' = ClosedAfter
    /\ UNCHANGED path_last
    /\ UNCHANGED nonFileVars

SlotCloseStep ==
    /\ \E handle_val \in SlotCloseHandles : NtClose(handle_val)
    /\ file_closed' = ClosedAfter
    /\ UNCHANGED path_last
    /\ UNCHANGED nonFileVars

NextSlots ==
    \/ SlotOpenStep
    \/ SlotCloseStep

SpecSlots == InitPool /\ [][NextSlots]_vars

\* Generic objects on their own: the main context creates events, timers,
\* listeners and threads without a start routine, one after the other.
NtCreateEventStep ==
    /\ g_next_handle < FIRST_HANDLE + MaxObjects
    /\ NtCreateEvent
    /\ UNCHANGED nonObjVars

NtCreateTimerStep ==
    /\ g_next_handle < FIRST_HANDLE + MaxObjects
    /\ NtCreateTimer
    /\ UNCHANGED nonObjVars

XamNotifyCreateListenerStep ==
    /\ g_next_handle < FIRST_HANDLE + MaxObjects
    /\ XamNotifyCreateListener
    /\ UNCHANGED nonObjVars

ObjCreateThreadStep ==
    /\ g_next_handle < FIRST_HANDLE + MaxObjects
    /\ ExCreateThread(cur_fiber, TRUE, 0, 0)
    /\ obj_last' = [api |-> "ExCreateThread", id |-> g_next_handle, r3 |-> 0]
    /\ UNCHANGED nonObjVars

NextObjects ==
    \/ NtCreateEventStep
    \/ NtCreateTimerStep
    \/ XamNotifyCreateListenerStep
    \/ ObjCreateThreadStep

SpecObjects == InitPool /\ [][NextObjects]_vars

\* Status translation on its own: the guest passes statuses of every
\* severity, the ones the switch names among them.
StatusHighs == {0, 32768, 49152, 65535}

StatusLows == (0 .. 63) \cup {154, 65535}

RtlNtStatusToDosErrorStep ==
    /\ \E hi \in StatusHighs, lo \in StatusLows :
          status_last' = [made |-> TRUE, status |-> <<hi, lo>>,
                          r3 |-> RtlNtStatusToDosError(<<hi, lo>>)]
    /\ UNCHANGED nonStatusVars

NextStatus == RtlNtStatusToDosErrorStep

SpecStatus == InitPool /\ [][NextStatus]_vars

\* The peer table of one instance: its discovery thread handles beacons of
\* two remote hosts while the guest thread makes XNet calls.
AddressTags == {1, 2}

DiscoveryAddsPeerStep ==
    /\ \E ip \in PeerIPs, tag \in AddressTags : DiscoveryAddsPeer(ip, tag)
    /\ UNCHANGED nonNetVars

XNetXnAddrToInAddrStep ==
    /\ \E ip \in PeerIPs, tag \in AddressTags : XNetXnAddrToInAddr(ip, tag, 0)
    /\ UNCHANGED nonNetVars

QosLookupAddsPeerStep ==
    /\ \E ip \in PeerIPs, tag \in AddressTags : QosLookupAddsPeer(ip, tag)
    /\ UNCHANGED nonNetVars

XNetConnectStep ==
    /\ \E ip \in PeerIPs : XNetConnect(ip)
    /\ UNCHANGED nonNetVars

XNetUnregisterInAddrStep ==
    /\ \E ip \in PeerIPs : XNetUnregisterInAddr(ip)
    /\ UNCHANGED nonNetVars

XNetGetConnectStatusStep ==
    /\ \E ip \in PeerIPs \cup {0} : XNetGetConnectStatus(ip)
    /\ UNCHANGED nonNetVars

WriteAndUnlockStep ==
    /\ \E t \in Threads : WriteAndUnlock(t)
    /\ UNCHANGED nonNetVars

\* the IPs asked for: those of the remote hosts and one that no host has
XNetInAddrToXnAddrStep ==
    /\ \E inaddr_ptr \in {0, 1} : \E ip \in PeerIPs \cup {258} :
          XNetInAddrToXnAddr(inaddr_ptr, ip)
    /\ UNCHANGED nonNetVars

NetShutdownStep == NetShutdown /\ UNCHANGED nonNetVars

NetInitStep == NetInit /\ UNCHANGED nonNetVars

NextPeers ==
    \/ DiscoveryAddsPeerStep
    \/ XNetXnAddrToInAddrStep
    \/ QosLookupAddsPeerStep
    \/ XNetConnectStep
    \/ XNetUnregisterInAddrStep
    \/ XNetGetConnectStatusStep
    \/ XNetInAddrToXnAddrStep
    \/ WriteAndUnlockStep
    \/ NetShutdownStep
    \/ NetInitStep

SpecPeers == InitPool /\ [][NextPeers]_vars

\* Discovery on one instance: remote hosts send Probes and Beacons, the
\* discovery thread handles them and beacons, the guest listens and looks up.
InitLone ==
    /\ InitSched
    /\ host_fibers = MAX_PENDING_THREADS
    /\ InitHeap
    /\ InitIcall
    /\ InitFile
    /\ InitObj
    /\ InitStatus
    /\ InitNetOf({LocalHost})
    /\ InitRecv
    /\ InitWire
    /\ InitLock
    /\ InitStop

\* the address of the remote host that sends
RemoteIP == 3

RemotePackets == {Packet("beacon", RemoteIP, 1, RemoteIP), Packet("probe", RemoteIP, 1, RemoteIP)}

\* release, listen, and no flag at all
ListenFlags == {1, 2, 0}

\* dwTimeout: none, 1 ms, 300 ms, 600 ms
LookupTimeouts == {0, 1, 300, 600}

RemoteSendsStep ==
    /\ \E pkt \in RemotePackets : RemoteSends(pkt)
    /\ UNCHANGED nonNetVars

DiscoveryReceivesStep == DiscoveryReceives(LocalHost) /\ UNCHANGED nonNetVars

BeaconTimerStep == BeaconTimer(LocalHost) /\ UNCHANGED nonNetVars

XNetQosListenStep ==
    /\ \E flags \in ListenFlags : XNetQosListen(LocalHost, flags)
    /\ UNCHANGED nonNetVars

XNetQosLookupStep ==
    /\ \E dwTimeout \in LookupTimeouts : XNetQosLookup(dwTimeout)
    /\ UNCHANGED nonNetVars

CollectSelectStep == CollectSelect /\ UNCHANGED nonNetVars

CollectRecvfromStep == CollectRecvfrom /\ UNCHANGED nonNetVars

TimePassesStep ==
    /\ \E now \in Instants : TimePasses(now)
    /\ UNCHANGED nonNetVars

NextDisc ==
    \/ RemoteSendsStep
    \/ DiscoveryReceivesStep
    \/ BeaconTimerStep
    \/ XNetQosListenStep
    \/ XNetQosLookupStep
    \/ CollectSelectStep
    \/ CollectRecvfromStep
    \/ TimePassesStep

SpecDisc == InitLone /\ [][NextDisc]_vars

\* Two instances on one LAN, both past NetInit, their discovery threads
\* running; either guest may open or release its QoS listener.
LanReceivesStep ==
    /\ \E h \in Hosts : DiscoveryReceives(h)
    /\ UNCHANGED nonNetVars

LanBeaconTimerStep ==
    /\ \E h \in Hosts : BeaconTimer(h)
    /\ UNCHANGED nonNetVars

LanListenStep ==
    /\ \E h \in Hosts, flags \in ListenFlags : XNetQosListen(h, flags)
    /\ UNCHANGED nonNetVars

NextLan ==
    \/ LanReceivesStep
    \/ LanBeaconTimerStep
    \/ LanListenStep

SpecLan == InitPool /\ [][NextLan]_vars

\* Each discovery thread keeps running its loop: a queued datagram is
\* received, and the 500 ms interval keeps elapsing.
LanFairness ==
    \A h \in Hosts :
        /\ WF_vars(DiscoveryReceives(h) /\ UNCHANGED nonNetVars)
        /\ WF_vars(BeaconTimer(h) /\ UNCHANGED nonNetVars)

SpecLanFair == SpecLan /\ LanFairness

\* Overlapped receives: the guest issues receives and polls their tokens
\* while datagrams arrive and sockets are closed and created.
\* the tokens for which data has been delivered once the call of this step
\* has returned
DeliveredAfter ==
    IF recv_last'.data # 0 /\ recv_last'.overlapped # NO_OVERLAPPED
    THEN recv_delivered \cup {recv_last'.overlapped}
    ELSE recv_delivered

WSARecvFromStep ==
    /\ \E socket_handle \in SocketHandles, buf_guest \in Buffers,
          overlapped \in Tokens \cup {NO_OVERLAPPED} :
          WSARecvFrom(socket_handle, buf_guest, overlapped)
    /\ recv_delivered' = DeliveredAfter
    /\ UNCHANGED nonRecvVars

WSAGetOverlappedResultStep ==
    /\ \E overlapped \in Tokens \cup {NO_OVERLAPPED} : WSAGetOverlappedResult(overlapped)
    /\ recv_delivered' = DeliveredAfter
    /\ UNCHANGED nonRecvVars

DatagramArrivesStep ==
    /\ \E socket_handle \in SocketHandles, data \in Payloads :
          DatagramArrives(socket_handle, data)
    /\ UNCHANGED recv_delivered
    /\ UNCHANGED nonRecvVars

SocketClosesStep ==
    /\ \E socket_handle \in SocketHandles : SocketCloses(socket_handle)
    /\ UNCHANGED recv_delivered
    /\ UNCHANGED nonRecvVars

SocketOpensStep ==
    /\ \E socket_handle \in SocketHandles : SocketOpens(socket_handle)
    /\ UNCHANGED recv_delivered
    /\ UNCHANGED nonRecvVars

NextRecv ==
    \/ WSARecvFromStep
    \/ WSAGetOverlappedResultStep
    \/ DatagramArrivesStep
    \/ SocketClosesStep
    \/ SocketOpensStep

SpecRecv == InitPool /\ [][NextRecv]_vars

\* Beacon payloads: the listener's payload is set and beacons go out, while
\* beacons of other hosts come in with any length recvfrom can return and
\* any value in the prefix
ListenLengths == {0, 1, DISC_MAX_QOS, DISC_MAX_QOS + 1, 70000}

WireLengths == {DISC_HEADER_LEN, BeaconFixedLen, BeaconFixedLen + 2,
                BeaconFixedLen + DISC_MAX_QOS, RECV_BUF_LEN}

WirePrefixes == {0, 2, 5, DISC_MAX_QOS, DISC_MAX_QOS + 1, 65535}

XNetQosListenDataStep ==
    /\ \E flags \in {1, 2, 4} : \E data_ptr \in {0, 1} : \E data_len \in ListenLengths :
          XNetQosListenData(flags, data_ptr, data_len)
    /\ UNCHANGED nonWireVars

SendBeaconWireStep == SendBeaconWire /\ UNCHANGED nonWireVars

CollectBeaconWireStep ==
    /\ \E n \in WireLengths : \E prefix \in WirePrefixes : CollectBeaconWire(n, prefix)
    /\ UNCHANGED nonWireVars

NextWire ==
    \/ XNetQosListenDataStep
    \/ SendBeaconWireStep
    \/ CollectBeaconWireStep

SpecWire == InitPool /\ [][NextWire]_vars

\* The locks: the discovery thread and two threads of guest code enter the
\* networking functions and step through them in any interleaving
DiscCallStep ==
    /\ \E fn \in DiscoveryFunctions : LockCall("disc", fn)
    /\ UNCHANGED nonLockVars

GuestCallStep ==
    /\ \E t \in LockThreads \ {"disc"} : \E fn \in GuestFunctions : LockCall(t, fn)
    /\ UNCHANGED nonLockVars

LockStepStep ==
    /\ \E t \in LockThreads : LockStep(t)
    /\ UNCHANGED nonLockVars

NextLocks ==
    \/ DiscCallStep
    \/ GuestCallStep
    \/ LockStepStep

SpecLocks == InitPool /\ [][NextLocks]_vars

\* Start and stop: the main thread calls NetInit, guest calls and
\* NetShutdown while the discovery thread runs its loop
NetInitOutcomes == {"no_socket", "no_bind", "ok"}

NetInitReturnsStep ==
    /\ \E outcome \in NetInitOutcomes : NetInitReturns(outcome)
    /\ UNCHANGED nonStopVars

DiscLoopStep == DiscLoop /\ UNCHANGED nonStopVars

DiscSelectStep == DiscSelect /\ UNCHANGED nonStopVars

DiscRecvfromStep ==
    /\ \E beacon \in BOOLEAN : DiscRecvfrom(beacon)
    /\ UNCHANGED nonStopVars

DiscTimerStep ==
    /\ \E due \in BOOLEAN : DiscTimer(due)
    /\ UNCHANGED nonStopVars

StopListenStep ==
    /\ \E on \in BOOLEAN : StopListen(on)
    /\ UNCHANGED nonStopVars

StopPendingStep == StopPending /\ UNCHANGED nonStopVars

StopLookupStep == StopLookup /\ UNCHANGED nonStopVars

StopCollectSelectStep ==
    /\ \E expired \in BOOLEAN : StopCollectSelect(expired)
    /\ UNCHANGED nonStopVars

StopCollectRecvfromStep ==
    /\ \E beacon \in BOOLEAN : StopCollectRecvfrom(beacon)
    /\ UNCHANGED nonStopVars

StopArrivesStep == StopArrives /\ UNCHANGED nonStopVars

NetShutdown_BeginStep == NetShutdown_Begin /\ UNCHANGED nonStopVars

NetShutdown_JoinStep == NetShutdown_Join /\ UNCHANGED nonStopVars

NetShutdown_FinishStep == NetShutdown_Finish /\ UNCHANGED nonStopVars

NextStop ==
    \/ NetInitReturnsStep
    \/ DiscLoopStep
    \/ DiscSelectStep
    \/ DiscRecvfromStep
    \/ DiscTimerStep
    \/ StopListenStep
    \/ StopPendingStep
    \/ StopLookupStep
    \/ StopCollectSelectStep
    \/ StopCollectRecvfromStep
    \/ StopArrivesStep
    \/ NetShutdown_BeginStep
    \/ NetShutdown_JoinStep
    \/ NetShutdown_FinishStep

SpecStop == InitPool /\ [][NextStop]_vars

\* every thread that can make its next step makes it in the end: the
\* discovery thread, the collector, and NetShutdown. Nothing obliges guest
\* code to make a call or another host to send.
StopFairness ==
    /\ WF_vars(DiscLoopStep)
    /\ WF_vars(DiscSelectStep)
    /\ WF_vars(DiscRecvfromStep)
    /\ WF_vars(DiscTimerStep)
    /\ WF_vars(StopCollectSelectStep)
    /\ WF_vars(StopCollectRecvfromStep)
    /\ WF_vars(NetShutdown_JoinStep)
    /\ WF_vars(NetShutdown_FinishStep)

SpecStopFair == SpecStop /\ StopFairness


\* ------------------------------------------------------------------------
\* Properties of the scheduler
\* ------------------------------------------------------------------------
\* descriptors in use
Assigned == 0 .. (g_pending_thread_count - 1)

\* the start routine of descriptor i has begun executing: its fiber has
\* entered ppc_thread_fiber_proc and called the routine
Begun(i) ==
    /\ PPC_LOOKUP_FUNC(g_pending_threads[i].start_routine)
    /\ fiber_pc[i].at \notin {"none", "entry"}

\* C1: a thread created with CreateSuspended != 0 is not switched to (its
\* fiber is not even created, its start routine does not begin) by
\* ExCreateThread, VdSwap or any other operation for as long as no
\* NtResumeThread or KeResumeThread call has named its handle.
C1_SuspendedNeverRunsBeforeResume ==
    \A i \in Slots :
        awaiting_resume[i] =>
            /\ cur_fiber # i
            /\ g_current_thread # i
            /\ fiber_pc[i].at = "none"
            /\ ~g_pending_threads[i].started

\* a VdSwap has gone through the whole array and returned while a thread
\* created suspended was still waiting for its resume call
C1_Witness ==
    /\ last.op = "VdSwap"
    /\ \E i \in Assigned : awaiting_resume[i] /\ fiber_pc[i].at = "none"

\* C2: when ExCreateThread called with CreateSuspended == 0 returns, the new
\* thread's start routine has begun executing.
C2_NonSuspendedHasBegunAtReturn ==
    (last.op = "ExCreateThread" /\ last.arg = 0) =>
        (last.idx # NoValue /\ Begun(last.idx))

\* C3: whenever guest code executes, g_current_thread designates the context
\* that executes it: null in the main context, the descriptor of the child
\* thread otherwise.
C3_CurrentThreadDesignatesExecuting ==
    (~crashed /\ fiber_pc[cur_fiber].at = "guest") => g_current_thread = cur_fiber

\* C4: a step in which a thread gives up its timeslice (it yields in a
\* blocking primitive, its start routine returns or is not found, or it
\* terminates) hands control to the context that granted the timeslice, i.e.
\* to the context waiting in thread_give_timeslice for that thread.
C4_ControlReturnsToGrantor ==
    [][\A i \in Slots :
          (/\ cur_fiber = i
           /\ fiber_pc[i].at \notin {"yield", "exit", "term"}
           /\ fiber_pc'[i].at \in {"yield", "exit", "term"})
          => (/\ fiber_pc[cur_fiber'].at = "grant"
              /\ fiber_pc[cur_fiber'].i = i)]_vars

\* C5: when the loop of a VdSwap invocation reaches a descriptor that is
\* non-suspended and unfinished, that descriptor is given a timeslice: the
\* invoker waits in thread_give_timeslice and the descriptor's fiber executes.
C5_VdSwapGrantsEveryEligible ==
    [][\A f \in Fibers :
          (/\ ParkedAt(f, "swap")
           /\ fiber_pc[f].i < g_pending_thread_count
           /\ ~g_pending_threads[fiber_pc[f].i].suspended
           /\ ~g_pending_threads[fiber_pc[f].i].finished)
          => (/\ cur_fiber' = fiber_pc[f].i
              /\ fiber_pc'[f].at = "grant"
              /\ g_current_thread' = fiber_pc[f].i
              /\ ~crashed')]_vars

\* C6: a blocking primitive returns success; called from the main context it
\* has made no context switch, called from a child thread it has switched
\* away exactly once.
C6_BlockingYieldsExactlyInChild ==
    last.op = "Blocking" =>
        /\ last.r3 = 0
        /\ last.sw = IF last.fiber = MAIN THEN 0 ELSE 1

\* one step keeps every descriptor moving forward
DescriptorsMoveForward ==
    /\ g_pending_thread_count' >= g_pending_thread_count
    /\ \A i \in Slots :
          /\ g_pending_threads[i].started => g_pending_threads'[i].started
          /\ g_pending_threads[i].finished => g_pending_threads'[i].finished
          /\ i \in Assigned =>
                /\ ~g_pending_threads[i].suspended => ~g_pending_threads'[i].suspended
                /\ g_pending_threads'[i].handle = g_pending_threads[i].handle
                /\ g_pending_threads'[i].start_routine = g_pending_threads[i].start_routine
          /\ (cur_fiber' = i /\ cur_fiber # i) =>
                (~g_pending_threads[i].finished /\ ~g_pending_threads'[i].finished)

\* C7: descriptor state only moves forward: suspended never goes from false
\* to true, started and finished never from true to false, a slot in use
\* keeps its handle and start routine, the count of slots in use never
\* drops, and a finished descriptor neither executes nor is switched to.
C7_DescriptorStateMovesForward ==
    /\ [](\A i \in Slots : g_pending_threads[i].finished => cur_fiber # i)
    /\ [][DescriptorsMoveForward]_vars

\* a VdSwap has returned after a thread that ran had finished, with another
\* thread resumed and parked in a blocking primitive
C7_Witness ==
    /\ last.op = "VdSwap"
    /\ \E i \in Assigned :
          /\ g_pending_threads[i].finished
          /\ g_pending_threads[i].started
          /\ fiber_pc[i].at \in {"exit", "term"}

\* C8: ExCreateThread called with the pool at capacity reports a failure: it
\* returns no success status and writes no thread handle.
C8_CreateAtCapacityFails ==
    (/\ last.op = "ExCreateThread"
     /\ last.idx = NoValue
     /\ g_pending_thread_count = MAX_PENDING_THREADS)
    => (last.r3 # 0 /\ last.out = NoValue)

\* ------------------------------------------------------------------------
\* Properties of the bump allocator
\* ------------------------------------------------------------------------
\* the end of an allocation, as the integer it is
AllocEnd(a) == MathAdd(a.addr, a.size)

\* C9: as long as every request fitted the remaining capacity, successful
\* allocations are disjoint, their addresses increase strictly in call
\* order, and each address is aligned to its API's alignment (4 KiB for
\* NtAllocateVirtualMemory and MmAllocatePhysicalMemoryEx, 16 bytes for the
\* pool and XAM calls).
C9_DisjointIncreasingAligned ==
    heap_all_fit =>
        /\ \A k \in 1 .. Len(allocs) : Aligned32(allocs[k].addr, ApiMask(allocs[k].api))
        /\ \A j, k \in 1 .. Len(allocs) :
              j < k => /\ LT32(allocs[j].addr, allocs[k].addr)
                       /\ LE32(AllocEnd(allocs[j]), allocs[k].addr)

\* the failure value of each allocation API
FailureValue(api) ==
    IF api = "NtAllocateVirtualMemory" THEN STATUS_NO_MEMORY
    ELSE IF api = "XamAlloc" THEN E_OUTOFMEMORY
    ELSE ZERO32

\* C10: an allocation request whose rounded size exceeds the remaining
\* capacity returns the API's failure value, leaves the cursor where it was
\* and zeroes and writes nothing; and a request of a size at least as large
\* as one refused before is refused as well.
C10_ExhaustionFails ==
    heap_last.api \in AllocApis =>
        /\ ~Fits(heap_last.before, heap_last.req, ApiMask(heap_last.api)) =>
              /\ ~heap_last.ok
              /\ heap_last.r3 = FailureValue(heap_last.api)
              /\ heap_last.out = NoAddr
              /\ heap_last.zeroed = NoAddr
              /\ g_heap_next = heap_last.before
        /\ (\E r \in heap_failed : LE32(r, heap_last.req)) => ~heap_last.ok


\* C11: the bump cursor never moves back and stays inside the heap region:
\* it is at least its value before the last call and
\* 0xA0000000 <= g_heap_next <= 0xB0000000, whatever sizes were requested and
\* including the advances of VdGetSystemCommandBuffer and XamGetExecutionId.
C11_CursorMonotoneInRegion ==
    /\ LE32(heap_last.before, g_heap_next)
    /\ LE32(HEAP_START, g_heap_next)
    /\ LE32(g_heap_next, g_heap_end)


\* ------------------------------------------------------------------------
\* Properties of the indirect dispatch
\* ------------------------------------------------------------------------
\* a dispatch has been made
Dispatched == icall_last.site \in CallSites

\* the target lies in [PPC_CODE_BASE, PPC_CODE_BASE + PPC_CODE_SIZE)
InCode(t) == LE32(PPC_CODE_BASE, t) /\ LT32(t, PPC_CODE_END)

\* C12: a dispatch to 0 or to an address outside the code range leaves
\* r3 = 0, invokes nothing and returns to the guest, however many dispatches
\* came before; g_null_icall_count has grown by exactly one for target 0 and
\* is unchanged for an out-of-range target.
C12_NullAndOutOfRangeSkipped ==
    (Dispatched /\ ~InCode(icall_last.target)) =>
        /\ icall_last.r3 = 0
        /\ icall_last.invoked = 0
        /\ icall_last.returned
        /\ ~icall_aborted
        /\ g_null_icall_count =
              icall_last.null_before + (IF icall_last.target = ZERO32 THEN 1 ELSE 0)

\* the first address past the code has been dispatched to after more than
\* five null dispatches and an earlier out-of-range one
C12_Witness ==
    /\ Dispatched
    /\ icall_last.target = PPC_CODE_END
    /\ icall_last.r3 = 0
    /\ icall_last.null_before > NULL_WARNINGS
    /\ icall_last.oor_before > 0

\* C13: a dispatch to an address inside the code range invokes the function
\* bound to it exactly once and returns; with an empty slot it invokes
\* nothing, aborts the process and does not return to the guest.
C13_BoundInvokedEmptyAborts ==
    (Dispatched /\ InCode(icall_last.target)) =>
        IF icall_last.target \in FuncTable
        THEN icall_last.invoked = 1 /\ icall_last.returned /\ ~icall_aborted
        ELSE icall_last.invoked = 0 /\ ~icall_last.returned /\ icall_aborted

\* the process has aborted on the empty slot of the last instruction address
\* of the code
C13_Witness ==
    /\ icall_aborted
    /\ icall_last.target = <<33336, 55540>>
    /\ icall_last.invoked = 0

\* C14: over all call sites together, a warning is logged only for the first
\* five dispatches to 0 and only for the first twenty out-of-range
\* dispatches; every later one is answered silently.
C14_WarningsRateLimited ==
    (Dispatched /\ icall_last.warned) =>
        IF icall_last.target = ZERO32
        THEN icall_last.null_before < NULL_WARNINGS
        ELSE icall_last.oor_before < OOR_WARNINGS


\* ------------------------------------------------------------------------
\* Properties of the path translation
\* ------------------------------------------------------------------------
\* a translation has been made
Translated == path_last # NoPath

\* the guest path splits in one way only: where no separator follows the
\* prefix, the remainder does not start with one
SplitsUniquely ==
    path_last.sep = <<>> =>
        (path_last.rest = <<>> \/ path_last.rest[1] \notin {"\\", "/"})

\* the remainder with every backslash replaced by '/'
HostRest == [i \in 1 .. Len(path_last.rest) |->
                IF path_last.rest[i] = "\\" THEN "/" ELSE path_last.rest[i]]

\* C18: a guest path "game:", an optional single separator and a remainder R
\* translates to "extracted/" followed by R with its backslashes turned into
\* '/'; a path that does not start with the prefix (in whatever case) comes
\* back with only its backslashes turned into '/'.
C18_GamePrefixRewritten ==
    (Translated /\ SplitsUniquely) =>
        /\ path_last.prefix = GAME_LOWER => path_last.out = EXTRACTED \o HostRest
        /\ path_last.prefix \in NoPrefixes =>
              /\ Len(path_last.out) =
                    Len(path_last.prefix) + Len(path_last.sep) + Len(path_last.rest)
              /\ \A i \in 1 .. Len(path_last.out) :
                    LET c == (path_last.prefix \o path_last.sep \o path_last.rest)[i]
                    IN path_last.out[i] = IF c = "\\" THEN "/" ELSE c

\* "game:\a\a" has been translated to "extracted/a/a"
C18_Witness ==
    /\ path_last.prefix = GAME_LOWER
    /\ path_last.sep = <<"\\">>
    /\ path_last.rest = <<"a", "\\">>
    /\ path_last.out = EXTRACTED \o <<"a", "/">>

\* C19: the prefix is recognised in every mix of upper and lower case: each
\* spelling of "game:" translates to the host path the lower-case spelling
\* translates to.
C19_PrefixCaseInsensitive ==
    (Translated /\ SplitsUniquely /\ path_last.prefix \in PrefixSpellings) =>
        path_last.out = xbox_path_to_host(GAME_LOWER \o path_last.sep \o path_last.rest)


\* ------------------------------------------------------------------------
\* Properties of file I/O
\* ------------------------------------------------------------------------
\* the slot a handle value names
SlotOf(h) == h - FILE_HANDLE_BASE

\* the handle value names an open entry of the type
IsOpen(h, type) ==
    SlotOf(h) \in DOMAIN g_file_handles /\ g_file_handles[SlotOf(h)].type = type

\* the listing of the host directory behind an open directory slot, as it
\* was when the handle was opened (the host file system does not change)
ListingAtOpen(slot) == EnumerateDirectory(g_file_handles[slot].host_path)

\* the call made last is a directory query on an open directory handle
QueriedDirectory ==
    file_last.op = "NtQueryDirectoryFile" /\ IsOpen(file_last.handle, "HANDLE_DIRECTORY")

\* the bytes the next entry needs: the 0x40 header and its name
NextEntrySize(slot, returned) == 64 + Len(ListingAtOpen(slot)[returned + 1].name)

\* C15: the entries successive queries of a directory handle return, put one
\* after the other, are the listing made at open time, each entry once and
\* in order; a query made when all entries have been returned returns
\* STATUS_NO_MORE_FILES (0x80000006), returns no entry and leaves the cursor.
C15_ListingEnumeratedOnceInOrder ==
    /\ \A slot \in DOMAIN g_file_handles :
          g_file_handles[slot].type = "HANDLE_DIRECTORY" =>
             /\ Len(dir_returned[slot]) <= Len(ListingAtOpen(slot))
             /\ dir_returned[slot] = SubSeq(ListingAtOpen(slot), 1, Len(dir_returned[slot]))
             /\ g_file_handles[slot].dir_index = Len(dir_returned[slot])
    /\ QueriedDirectory =>
          LET slot == SlotOf(file_last.handle)
              n == Len(file_last.records)
          IN /\ file_last.before = Len(ListingAtOpen(slot)) <=>
                   file_last.r3 = <<32768, 6>>
             /\ file_last.r3 = <<32768, 6>> =>
                   (n = 0 /\ Len(dir_returned[slot]) = file_last.before)
             /\ file_last.r3 = <<0, 0>> =>
                   /\ n > 0
                   /\ Len(dir_returned[slot]) = file_last.before + n
                   /\ \A k \in 1 .. n :
                         /\ file_last.records[k].FileName =
                               ListingAtOpen(slot)[file_last.before + k].name
                         /\ file_last.records[k].FileIndex = file_last.before + k - 1

\* a directory of three entries has been returned in two calls, one entry
\* then two, and the call after them has reported STATUS_NO_MORE_FILES
C15_Witness ==
    /\ QueriedDirectory
    /\ file_last.r3 = <<32768, 6>>
    /\ file_last.before = 3
    /\ dir_returned[SlotOf(file_last.handle)] = HostListing

\* C16: when entries remain and the buffer is too small for the next one
\* (0x40 bytes of header and its name), the query returns
\* STATUS_BUFFER_OVERFLOW (0x80000005), writes nothing and leaves the cursor,
\* so that the next successful query starts with that same entry.
C16_TooSmallBufferIsOverflow ==
    QueriedDirectory =>
        LET slot == SlotOf(file_last.handle)
            remain == file_last.before < Len(ListingAtOpen(slot))
        IN /\ (remain /\ file_last.len < NextEntrySize(slot, file_last.before)) =>
                 /\ file_last.r3 = <<32768, 5>>
                 /\ file_last.records = <<>>
                 /\ file_last.iosb = NoIosb
                 /\ Len(dir_returned[slot]) = file_last.before
                 /\ g_file_handles[slot].dir_index = file_last.before
           /\ (remain /\ file_last.len >= NextEntrySize(slot, file_last.before)) =>
                 /\ file_last.r3 = <<0, 0>>
                 /\ file_last.records[1].FileIndex = file_last.before
                 /\ file_last.records[1].offset = 0

\* after one entry was returned, a buffer of 0x40 bytes has been refused for
\* the second entry, whose name has three characters
C16_Witness ==
    /\ QueriedDirectory
    /\ file_last.r3 = <<32768, 5>>
    /\ file_last.before = 1
    /\ file_last.len = 64

\* the guest name has no host counterpart: the name is empty, or neither its
\* host path nor that path without trailing slashes exists
NoHostCounterpart(name) ==
    \/ name = <<>>
    \/ /\ ~HostExists(xbox_path_to_host(name))
       /\ ~HostExists(TrimSlashes(xbox_path_to_host(name)))

\* C17: NtOpenFile / NtCreateFile on a name without host counterpart returns
\* STATUS_OBJECT_NAME_NOT_FOUND (0xC0000034), writes neither the handle nor
\* the completion block and leaves the handle table as it was.
C17_NotFoundAllocatesNothing ==
    [][(/\ file_last'.op \in {"NtOpenFile", "NtCreateFile"}
        /\ NoHostCounterpart(file_last'.name))
       => (/\ file_last'.r3 = <<49152, 52>>
           /\ file_last'.out = NoValue
           /\ file_last'.iosb = NoIosb
           /\ g_file_handles' = g_file_handles)]_vars

\* game:\x\ has been reported as not found while another handle was open
C17_Witness ==
    /\ file_last.op = "NtCreateFile"
    /\ file_last.name = GamePath(<<"x", "\\">>)
    /\ file_last.r3 = <<49152, 52>>
    /\ DOMAIN g_file_handles # {}

\* the smaller of two numbers
Min(a, b) == IF a <= b THEN a ELSE b

\* C20: NtReadFile on an open file handle returns STATUS_SUCCESS, also at or
\* across end-of-file; the completion block, when there is one, carries
\* status 0 and a byte count of min(length, bytes from the read position to
\* the end of the file), never more than the length. On any other handle
\* value (unknown, closed, a directory) it returns STATUS_INVALID_HANDLE
\* (0xC0000008) and writes nothing.
C20_ReadNeverFailsOnOpenFile ==
    file_last.op = "NtReadFile" =>
        IF IsOpen(file_last.handle, "HANDLE_FILE")
        THEN LET size == HostFileSize(g_file_handles[SlotOf(file_last.handle)].host_path)
                 remaining == IF file_last.before >= size THEN 0
                              ELSE size - file_last.before
                 count == Min(file_last.len, remaining)
             IN /\ file_last.r3 = <<0, 0>>
                /\ file_last.iosb \in {NoIosb, <<<<0, 0>>, count>>}
                /\ count <= file_last.len
                /\ file_last.records =
                      IF count = 0 THEN <<>> ELSE <<[offset |-> 0, size |-> count]>>
                /\ g_file_handles[SlotOf(file_last.handle)].fpos = file_last.before + count
        ELSE /\ file_last.r3 = <<49152, 8>>
             /\ file_last.iosb = NoIosb
             /\ file_last.records = <<>>

\* a read of 9 bytes from position 3 of the 5-byte file has returned success
\* with 2 bytes transferred
C20_Witness ==
    /\ file_last.op = "NtReadFile"
    /\ file_last.before = 3
    /\ file_last.len = 9
    /\ file_last.iosb = <<<<0, 0>>, 2>>


\* the calls that need an open handle
HandleQueries == {"NtReadFile", "NtQueryInformationFile", "NtQueryDirectoryFile"}

\* C21: NtClose returns success for every handle value. For an open file or
\* directory handle it frees the slot and leaves every other slot alone; for
\* any other value the table is unchanged. NtReadFile,
\* NtQueryInformationFile and NtQueryDirectoryFile on a value that was closed
\* and not handed out again return STATUS_INVALID_HANDLE (0xC0000008).
C21_CloseFreesSlotAndSucceeds ==
    [][/\ file_last'.op = "NtClose" =>
            /\ file_last'.r3 = <<0, 0>>
            /\ IF IsOpen(file_last'.handle, "HANDLE_FILE")
                  \/ IsOpen(file_last'.handle, "HANDLE_DIRECTORY")
               THEN /\ DOMAIN g_file_handles' =
                          DOMAIN g_file_handles \ {SlotOf(file_last'.handle)}
                    /\ \A i \in DOMAIN g_file_handles' :
                          g_file_handles'[i] = g_file_handles[i]
                    /\ file_last'.handle \in file_closed'
               ELSE g_file_handles' = g_file_handles
       /\ (file_last'.op \in HandleQueries /\ file_last'.handle \in file_closed) =>
            /\ file_last'.r3 = <<49152, 8>>
            /\ file_last'.iosb = NoIosb
            /\ file_last'.records = <<>>
            /\ g_file_handles' = g_file_handles]_vars

\* an information query has been refused for a handle value that was open
\* and has been closed
C21_Witness ==
    /\ file_last.op = "NtQueryInformationFile"
    /\ file_last.handle = FILE_HANDLE_BASE
    /\ file_last.handle \in file_closed
    /\ file_last.r3 = <<49152, 8>>


\* ------------------------------------------------------------------------
\* Properties of generic kernel objects
\* ------------------------------------------------------------------------
\* the handle values handle_lookup can resolve: [0x1000, 0x1000 + 128)
FileHandleRange == FILE_HANDLE_BASE .. (FILE_HANDLE_BASE + MAX_FILE_HANDLES - 1)

\* C22: no identifier returned for a generic kernel object (NtCreateEvent,
\* NtCreateTimer, ExCreateThread, XamNotifyCreateListener) lies in the
\* file/directory handle range [0x1000, 0x1000 + 128), however many objects
\* have been created.
C22_ObjectIdsOutsideFileRange ==
    obj_last.id # NoValue => obj_last.id \notin FileHandleRange


\* ------------------------------------------------------------------------
\* Properties of the status translation
\* ------------------------------------------------------------------------
\* the fixed table: status (0x00000000, 0x80000005, 0x80000006, 0xC0000008,
\* 0xC0000017, 0xC0000034, 0xC000003A, 0xC0000035, 0xC000009A, 0xC0000003)
\* and its platform error code
DosErrorTable ==
    {<<<<0, 0>>, 0>>, <<<<32768, 5>>, 234>>, <<<<32768, 6>>, 18>>,
     <<<<49152, 8>>, 6>>, <<<<49152, 23>>, 8>>, <<<<49152, 52>>, 2>>,
     <<<<49152, 58>>, 3>>, <<<<49152, 53>>, 183>>, <<<<49152, 154>>, 8>>,
     <<<<49152, 3>>, 87>>}

\* the codes the table gives a status
TableCodes(status) == {e[2] : e \in {t \in DosErrorTable : t[1] = status}}

\* C23: RtlNtStatusToDosError answers every 32-bit status: a status of the
\* fixed table gets its fixed platform error code, every other status gets
\* the fallback code 1; the call changes nothing else.
C23_StatusTranslationTotal ==
    [][/\ IF TableCodes(status_last'.status) # {}
          THEN TableCodes(status_last'.status) = {status_last'.r3}
          ELSE status_last'.r3 = 1
       /\ UNCHANGED nonStatusVars]_vars

\* a status outside the table, 0xC000003F, has been translated to 1
C23_Witness ==
    /\ status_last.made
    /\ status_last.status = <<49152, 63>>
    /\ status_last.r3 = 1


\* ------------------------------------------------------------------------
\* Properties of the peer table
\* ------------------------------------------------------------------------
\* no two entries of the table have the same IP
OneEntryPerIP(peers) ==
    \A i, j \in 1 .. Len(peers) : peers[i].ina = peers[j].ina => i = j

\* thread t completes a call in the step
Returns(t) == net_pc[t].at = "held" /\ net_pc'[t].at = "idle"

\* C24: the peer table holds at most one entry per IP address, however the
\* discovery thread's beacon handling interleaves with the guest's
\* XNetXnAddrToInAddr, XNetConnect, XNetUnregisterInAddr and XNetQosLookup;
\* a beacon or registration for an IP that is present overwrites the
\* address and key of that entry in place.
C24_OneEntryPerIP ==
    [][/\ OneEntryPerIP(g_peers'[LocalHost])
       /\ \A t \in Threads :
             (/\ Returns(t)
              /\ net_pc[t].op \in AddCalls
              /\ \E i \in 1 .. Len(g_peers[LocalHost]) : g_peers[LocalHost][i].ina = net_pc[t].ip)
             => /\ Len(g_peers'[LocalHost]) = Len(g_peers[LocalHost])
                /\ \A i \in 1 .. Len(g_peers[LocalHost]) :
                      IF g_peers[LocalHost][i].ina = net_pc[t].ip
                      THEN g_peers'[LocalHost][i] =
                              PeerEntry(net_pc[t].ip, net_pc[t].tag, net_pc[t].xnkid,
                                        g_peers[LocalHost][i].connected)
                      ELSE g_peers'[LocalHost][i] = g_peers[LocalHost][i]]_vars

\* both remote hosts are in the table and the discovery thread has just
\* overwritten address and key of the second entry, a peer XNetConnect had
\* marked connected
C24_Witness ==
    /\ Len(g_peers[LocalHost]) = 2
    /\ net_last.op = "Beacon"
    /\ net_last.ip = g_peers[LocalHost][2].ina
    /\ g_peers[LocalHost][2].tag = 2
    /\ g_peers[LocalHost][2].xnkid = 2
    /\ g_peers[LocalHost][2].connected

\* C26: an entry created by a beacon or by XNetXnAddrToInAddr has connected =
\* false; a beacon or registration for an IP that is present leaves every
\* connected flag as it was; XNetGetConnectStatus returns CONNECTED (4) only
\* for an IP XNetConnect was called for since its entry was last removed by
\* XNetUnregisterInAddr or NetShutdown, and IDLE (0) otherwise.
C26_ConnectedOnlyByConnect ==
    [][/\ \A t \in Threads :
             (Returns(t) /\ net_pc[t].op \in AddCalls) =>
                \A i \in 1 .. Len(g_peers'[LocalHost]) :
                   IF i <= Len(g_peers[LocalHost])
                   THEN g_peers'[LocalHost][i].connected = g_peers[LocalHost][i].connected
                   ELSE ~g_peers'[LocalHost][i].connected
       /\ net_last'.op = "XNetGetConnectStatus" =>
             net_last'.r3 = (IF net_last'.ip \in connect_called' THEN 4 ELSE 0)]_vars

\* the status of a connected peer has been asked for after a beacon updated
\* its entry, and the answer is CONNECTED
C26_Witness ==
    /\ net_last.op = "XNetGetConnectStatus"
    /\ net_last.r3 = 4
    /\ \E i \in 1 .. Len(g_peers[LocalHost]) :
          /\ g_peers[LocalHost][i].ina = net_last.ip
          /\ g_peers[LocalHost][i].tag # 0

\* ------------------------------------------------------------------------
\* LAN discovery and QoS lookup: claims
\* ------------------------------------------------------------------------
HasPeer(h, ip) == FindPeerByIP(g_peers[h], ip) # 0

\* C25: two instances on one LAN that have both completed NetInit and whose
\* discovery threads run converge: each eventually holds a PeerEntry for the
\* other's IP.
C25_InstancesConverge ==
    <>(\A h \in Hosts : \A other \in Hosts \ {h} : HasPeer(h, other))

\* C27: every Probe the discovery thread receives whose address block does
\* not carry the instance's own IP is answered with exactly one Beacon sent
\* to the Probe's sender; a datagram that carries the instance's own IP is
\* answered with nothing and leaves the peer table as it was.
C27_ProbeAnsweredByOneUnicastBeacon ==
    [][DiscoveryReceivesStep =>
          LET pkt == Head(disc_socket[LocalHost])
          IN /\ pkt.type = "probe" /\ pkt.ina # LocalHost =>
                   /\ Len(net_last'.sent) = 1
                   /\ net_last'.sent[1].pkt.type = "beacon"
                   /\ net_last'.sent[1].dest = pkt.from
             /\ pkt.ina = LocalHost =>
                   /\ net_last'.sent = <<>>
                   /\ g_peers' = g_peers]_vars

Foreign(pkt, type) == pkt.type = type /\ pkt.ina # LocalHost

\* C28: when XNetQosLookup returns, every Beacon of a remote host that
\* arrived on the discovery socket while it collected, and was taken off the
\* socket by the discovery thread in that time, is in its responses and in
\* the peer table; and no Probe of a remote host that arrived in that time
\* was taken off the socket by the collector and dropped without a reply.
C28_CollectionMissesNothing ==
    net_last.op = "XNetQosLookup" =>
        /\ \A pkt \in net_last.taken :
              Foreign(pkt, "beacon") =>
                 /\ \E i \in DOMAIN net_last.responses : net_last.responses[i] = pkt
                 /\ HasPeer(LocalHost, pkt.ina)
        /\ \A pkt \in net_last.discarded : ~Foreign(pkt, "probe")

\* candidate ceilings, in milliseconds
Ceilings == {QOS_DEFAULT_TIMEOUT, QOS_TIMEOUT_LIMIT - 1, QOS_TIMEOUT_LIMIT}

\* C29: for a caller's timeout T > 0, the time XNetQosLookup has spent
\* collecting never exceeds min(T, C) milliseconds, C a fixed ceiling.
C29_CollectionBoundedByTimeout ==
    Collecting /\ net_pc["guest"].dwTimeout > 0 =>
        \E C \in Ceilings :
            net_pc["guest"].elapsed <= Min(net_pc["guest"].dwTimeout, C)

\* ------------------------------------------------------------------------
\* Overlapped receives: claims
\* ------------------------------------------------------------------------
\* the call just made was `op` on a token
Polled(op) == recv_last'.op = op /\ recv_last'.overlapped # NO_OVERLAPPED

\* C30: a WSARecvFrom on an open socket that finds no data returns the
\* pending indication and leaves its token with exactly the entry of this
\* call; a WSAGetOverlappedResult for a token that has an entry either
\* completes it (returns TRUE, fills the entry's buffer, marks the token
\* complete, removes the entry) or returns FALSE, delivers nothing and
\* leaves the entry as it was; and data is delivered by a poll only to a
\* token that had an entry.
C30_PendingReceiveCompletesOnceOrStays ==
    [][/\ WSARecvFromStep /\ Polled("WSARecvFrom") /\ recv_last'.socket \in xsockets
          /\ sock_queue[recv_last'.socket] = <<>> =>
             /\ recv_last'.r3 = SOCKET_ERROR
             /\ overlapped_status'[recv_last'.overlapped] = STATUS_PENDING
             /\ g_pending_recvs'[recv_last'.overlapped].socket_handle = recv_last'.socket
             /\ \A t \in Tokens \ {recv_last'.overlapped} :
                   g_pending_recvs'[t] = g_pending_recvs[t]
       /\ WSAGetOverlappedResultStep /\ Polled("WSAGetOverlappedResult") =>
             LET t == recv_last'.overlapped
             IN IF g_pending_recvs[t] # NoPending
                THEN \/ /\ recv_last'.r3 = 1
                        /\ recv_last'.buf = g_pending_recvs[t].buf_guest
                        /\ recv_last'.data # 0
                        /\ overlapped_status'[t] = STATUS_COMPLETE
                        /\ g_pending_recvs'[t] = NoPending
                     \/ /\ recv_last'.r3 = 0
                        /\ recv_last'.data = 0
                        /\ g_pending_recvs'[t] = g_pending_recvs[t]
                ELSE recv_last'.data = 0]_vars

\* ------------------------------------------------------------------------
\* Scheduler: resume calls that match nothing
\* ------------------------------------------------------------------------
ResumeOps == {"NtResumeThread", "KeResumeThread"}

\* the handle the resume call of this step was made with: in the record of
\* the call when it returned, in the caller's parked position when it
\* switched away
ResumedHandle ==
    IF last'.op \in ResumeOps THEN last'.arg ELSE fiber_pc'[cur_fiber].arg

\* no descriptor in use has handle h, is suspended and is not finished
NothingToResume(h) ==
    \A i \in 0 .. (g_pending_thread_count - 1) :
        \/ g_pending_threads[i].handle # h
        \/ ~g_pending_threads[i].suspended
        \/ g_pending_threads[i].finished

\* C34: NtResumeThread/KeResumeThread on a handle that matches no
\* descriptor, or only descriptors that are not suspended or are finished,
\* changes no scheduler state, switches to no fiber and reports previous
\* suspend count 0 (r3 = 0, and 0 through the count pointer when there is
\* one); a resume call switches away at most once.
C34_ResumeWithoutMatchIsNoOp ==
    [][NtResumeStep \/ KeResumeStep =>
          /\ NothingToResume(ResumedHandle) =>
                /\ UNCHANGED <<g_pending_threads, g_pending_thread_count, g_next_handle,
                               g_main_fiber, g_current_thread, cur_fiber, fiber_pc,
                               host_fibers, crashed>>
                /\ last'.op \in ResumeOps
                /\ last'.r3 = 0
                /\ last'.out \in {0, NoValue}
                /\ last'.sw = 0
          /\ fiber_pc'[cur_fiber].sw <= 1]_vars

\* a resume call has just returned without a match for the handle of a
\* thread that was started before: a second resume of the same thread
C34_Witness ==
    /\ last.op = "NtResumeThread"
    /\ last.idx = NoValue
    /\ last.out = 0
    /\ \E i \in 0 .. (g_pending_thread_count - 1) :
          /\ g_pending_threads[i].handle = last.arg
          /\ g_pending_threads[i].started
          /\ ~g_pending_threads[i].suspended
          /\ ~g_pending_threads[i].finished

\* ------------------------------------------------------------------------
\* Directory queries: the buffer one call fills
\* ------------------------------------------------------------------------
\* the last file I/O call was an NtQueryDirectoryFile that returned success
QuerySucceeded ==
    /\ file_last.op = "NtQueryDirectoryFile"
    /\ file_last.r3 = STATUS_SUCCESS

\* a record's size, 0x40 + name length, rounded up to a multiple of 8
RoundedSize(rec) ==
    (DIR_HEADER_SIZE + rec.FileNameLength + 7)
        - ((DIR_HEADER_SIZE + rec.FileNameLength + 7) % 8)

\* the offsets reached by following NextEntryOffset from `off`, for at most
\* `fuel` records; NoValue stands for an offset at which no record starts
RECURSIVE ChainFrom(_, _, _)
ChainFrom(recs, off, fuel) ==
    LET here == {k \in DOMAIN recs : recs[k].offset = off}
    IN IF here = {} \/ fuel = 0 THEN {NoValue}
       ELSE LET rec == recs[CHOOSE k \in here : TRUE]
            IN IF rec.NextEntryOffset = 0 THEN {off}
               ELSE {off} \cup ChainFrom(recs, off + rec.NextEntryOffset, fuel - 1)

\* C35: in the buffer filled by one successful NtQueryDirectoryFile call,
\* every record starts at a multiple of 8 from the buffer start; each record
\* but the last has NextEntryOffset equal to its size rounded up to 8, which
\* is the distance to the next record; the last has NextEntryOffset 0; and
\* the chain from offset 0 visits exactly the records the call wrote.
C35_RecordsChainedAndAligned ==
    QuerySucceeded =>
        LET recs == file_last.records
        IN /\ recs # <<>>
           /\ \A k \in DOMAIN recs :
                 /\ recs[k].offset % 8 = 0
                 /\ k < Len(recs) =>
                       /\ recs[k].NextEntryOffset = RoundedSize(recs[k])
                       /\ recs[k + 1].offset = recs[k].offset + recs[k].NextEntryOffset
                 /\ k = Len(recs) => recs[k].NextEntryOffset = 0
           /\ ChainFrom(recs, 0, Len(recs)) = {recs[k].offset : k \in DOMAIN recs}

\* a successful query has written two records or more
C35_Witness ==
    /\ QuerySucceeded
    /\ Len(file_last.records) >= 2

\* C36: NtQueryDirectoryFile writes only inside the buffer (for every record,
\* the bytes it zeroes and the header and name it stores end at or before
\* the buffer length), and the byte count in the completion block is never
\* greater than the buffer length.
C36_QueryStaysInsideBuffer ==
    file_last.op = "NtQueryDirectoryFile" =>
        /\ \A k \in DOMAIN file_last.records :
              LET rec == file_last.records[k]
              IN /\ rec.offset + rec.zeroed <= file_last.len
                 /\ rec.offset + DIR_HEADER_SIZE + rec.FileNameLength <= file_last.len
        /\ file_last.iosb # NoIosb => file_last.iosb[2] <= file_last.len

\* ------------------------------------------------------------------------
\* The handle table at its capacity
\* ------------------------------------------------------------------------
TableFull == FileSlots \subseteq DOMAIN g_file_handles

\* C37: over any sequence of opens and closes at most 128 files and
\* directories are open at once, and an open hands out a handle that no open
\* file or directory has; an open attempted when all 128 slots are in use
\* returns STATUS_INSUFFICIENT_RESOURCES, writes no handle, leaves the table
\* as it was and no host file open; an open of an existing name when a slot
\* is free (as after any close) succeeds.
C37_TableBoundedAndReusable ==
    [][/\ Cardinality(DOMAIN g_file_handles') <= MAX_FILE_HANDLES
       /\ SlotOpenStep =>
             IF TableFull
             THEN /\ file_last'.r3 = STATUS_INSUFFICIENT_RESOURCES
                  /\ file_last'.out = NoValue
                  /\ g_file_handles' = g_file_handles
                  /\ host_fps' = host_fps
             ELSE /\ file_last'.r3 = STATUS_SUCCESS
                  /\ file_last'.out - FILE_HANDLE_BASE \in FileSlots \ DOMAIN g_file_handles
                  /\ DOMAIN g_file_handles' =
                        DOMAIN g_file_handles \cup {file_last'.out - FILE_HANDLE_BASE}]_vars

\* an open of the file has been refused for want of a slot, after a close
\* had freed one and an open had taken it again
C37_Witness ==
    /\ file_last.op = "NtOpenFile"
    /\ file_last.r3 = STATUS_INSUFFICIENT_RESOURCES
    /\ file_last.name = GamePath(<<"a">>)
    /\ TableFull
    /\ \E i \in DOMAIN g_file_handles : g_file_handles[i].type = "HANDLE_DIRECTORY"

\* C38: WSAGetOverlappedResult returns TRUE for a completion token only if a
\* receive issued with that token has delivered data, in WSARecvFrom or in
\* a completion check; so it returns FALSE for a token that was never
\* passed to WSARecvFrom and for one whose entry was dropped with its socket.
C38_TrueOnlyAfterDelivery ==
    [][WSAGetOverlappedResultStep /\ recv_last'.r3 = 1 =>
          recv_last'.overlapped \in recv_delivered']_vars

\* C39: the result list built by one XNetQosLookup holds at most one entry
\* per responding host, also when two Beacons of that host arrive within the
\* collection window.
C39_OneEntryPerHost ==
    net_last.op = "XNetQosLookup" =>
       \A i, j \in DOMAIN net_last.responses :
          net_last.responses[i].ina = net_last.responses[j].ina => i = j

\* C40: for every received Beacon, whatever its length and its prefix, the
\* payload length recorded for it is at most DISC_MAX_QOS and at most the
\* number of payload bytes present in the packet; and every Beacon sent
\* carries a prefix equal to the number of payload bytes that follow, at
\* most DISC_MAX_QOS.
C40_PayloadLengthWithinPacket ==
    /\ wire_last.op = "CollectBeaconResponses" /\ wire_last.qos_data_len # NoValue =>
          /\ wire_last.qos_data_len <= DISC_MAX_QOS
          /\ wire_last.qos_data_len <= wire_last.n - BeaconFixedLen
    /\ wire_last.op = "SendBeacon" =>
          /\ wire_last.prefix = wire_last.n - BeaconFixedLen
          /\ wire_last.prefix <= DISC_MAX_QOS

\* the lock a thread must hold, and in which mode, for an access of kind k
\* to structure s
Covers(held, k, s) ==
    \/ <<LockOf(s), "exclusive">> \in held
    \/ k = "read" /\ <<LockOf(s), "shared">> \in held

\* C31: every read or write of the peer table, the listener state and the
\* pending-receive map is made by a thread that holds that structure's own
\* lock, exclusively for a write; a held lock is held exclusively by one
\* thread or shared by readers only; no thread holds two of the three locks
\* at once; and whenever a thread is inside a networking function, some
\* thread inside one can make its next step (no deadlock).
C31_AccessesLockedNoDeadlock ==
    /\ lock_last.k \in {"read", "write"} => Covers(lock_last.held, lock_last.k, lock_last.s)
    /\ \A m \in Locks : \A h \in lock_holders[m] :
          h.mode = "exclusive" => lock_holders[m] = {h}
    /\ \A t \in LockThreads : Cardinality(HeldBy(t)) <= 1
    /\ (\E t \in LockThreads : lock_pc[t] # <<>>) => \E t \in LockThreads : CanStep(t)

\* the discovery thread has just read the listener state in SendBeacon
\* while one guest thread holds the peer table's lock exclusively and the
\* other waits for it
C31_Witness ==
    /\ lock_last = [thread |-> "disc", k |-> "read", s |-> "g_qos_listener",
                    held |-> {<<"g_qos_mutex", "exclusive">>}]
    /\ lock_holders["g_peers_mutex"] = {Holder("guest1", "exclusive")}
    /\ lock_pc["guest2"] # <<>>
    /\ ~CanStep("guest2")

\* C33: XNetInAddrToXnAddr with a non-null IP pointer returns success and
\* leaves the peer table as it was; for an IP present in the table it
\* outputs the address and key stored in the first entry with that IP; for
\* an unknown IP it outputs an address that depends only on the IP (ina =
\* inaOnline = IP, hardware id 00:50 followed by the four IP bytes) and a
\* zero key.
C33_AddressOfKnownOrSynthesized ==
    [][XNetInAddrToXnAddrStep /\ net_last'.inaddr_ptr # 0 =>
          LET ip == net_last'.ip
              peers == g_peers[LocalHost]
              known == {i \in 1 .. Len(peers) : peers[i].ina = ip}
          IN /\ net_last'.r3 = <<0, 0>>
             /\ g_peers' = g_peers
             /\ IF known # {}
                THEN \E i \in known :
                        /\ \A j \in known : i <= j
                        /\ net_last'.xnaddr = [ina |-> ip, tag |-> peers[i].tag]
                        /\ net_last'.xnkid = peers[i].xnkid
                ELSE /\ net_last'.xnaddr.ina = ip
                     /\ net_last'.xnaddr.inaOnline = ip
                     /\ net_last'.xnaddr.abEnet =
                           <<0, 80, ip % 256, (ip \div 256) % 256, 0, 0>>
                     /\ net_last'.xnkid = 0]_vars

\* the address of an IP no entry has was asked for while the table held two
\* peers, and the one of a peer whose entry a beacon had filled
C33_Witness ==
    /\ net_last.op = "XNetInAddrToXnAddr"
    /\ net_last.inaddr_ptr # 0
    /\ net_last.ip = 258
    /\ Len(g_peers[LocalHost]) = 2
    /\ \E i \in 1 .. 2 : g_peers[LocalHost][i].tag # 0

\* NetShutdown has returned and the main thread has made no call since
ShutDown == stop_last.op = "NetShutdown" /\ stop_pc = "idle"

\* C32: NetShutdown always terminates: once it has cleared the running flag
\* it returns in the end, the discovery thread having left its loop and
\* been joined; and when it has returned, the discovery thread is not
\* running, the socket is closed, the peer table and the pending-receive
\* map are empty and the listener is inactive, also when NetInit failed
\* before it started the thread.
C32_ShutdownTerminates ==
    /\ (stop_pc \in {"join", "finish"}) ~> (stop_pc = "idle")
    /\ [](ShutDown =>
             /\ g_disc_thread = "none"
             /\ ~stop_running
             /\ g_disc_socket = INVALID_SOCKET
             /\ stop_tables = NoTables)

====
